---- MODULE Spec2Model ----
(***************************************************************************)
(* A model of the PNG encoder of src/png/writer.go.                        *)
(*                                                                         *)
(* One call of Encoder.EncodeExtended is a run of the program counter pc   *)
(* from "opts" to "done"; every step is one statement group of the         *)
(* function (one writer call), translated from its code.  The output sink  *)
(* w records every Write call it accepted, in order: the signature, and    *)
(* for every chunk its 8-byte header, its payload and its 4-byte CRC.      *)
(* Bytes are integers 0..255 and byte strings are sequences of them.       *)
(***************************************************************************)
EXTENDS Integers, Sequences, FiniteSets, TLC

(***************************************************************************)
(* Bounds of the exploration.                                              *)
(***************************************************************************)
\* sink Write calls are numbered from 1; the failing one is drawn from 0..MaxFailAt (0: none)
MaxFailAt == 26
\* a pooled Encoder is followed for this many Get calls
MaxGets == 2
\* rows of a fresh image
MaxRows == 2
\* text entries of a metadata bundle
MaxText == 2
\* bytes the compressor hands to the IDAT buffer in one Write or Close
MaxEmit == 4
\* the longest row FilterSpec hands to filter
MaxLen == 3
\* RowSpec: the images written on one session, and their width and height in pixels
MaxImages == 3
MaxDx == 2
MaxDy == 2

\* size of the IDAT bufio.Writer; writer.go:852 asks for 1<<15, scaled down here
BufSize == 3

(***************************************************************************)
(* Byte-level helpers.                                                     *)
(***************************************************************************)
\* the io.Writer's error, FormatError, UnsupportedError and the hooks' errors
NoErr == "nil"
SinkErr == "SinkError"
FormatErr == "FormatError"
UnsupportedErr == "UnsupportedError"
IccHookErr == "HookError(icc)"
XmpHookErr == "HookError(xmp)"
MultipleErr == "Multiple metadata passed"
UnknownOptErr == "Unknown write option"
ValidateErr == "metadata.validate error"

\* An int that may not fit 31 bits is held as two limbs: [hi, lo] is hi * 2^16 + lo,
\* with 0 <= lo < 2^16.
Limb == 256 * 256
Wide(v) == [hi |-> v \div Limb, lo |-> v % Limb]

\* x <= 0, x >= 1<<32 and int(uint32(x)) = x of a two-limb int
WideNonPositive(x) == x.hi < 0 \/ (x.hi = 0 /\ x.lo = 0)
WideAtLeast2_32(x) == x.hi >= Limb
FitsUint32(x) == x.hi % Limb = x.hi

\* binary.BigEndian.PutUint32 of uint32(x), x a two-limb int
PutUint32W(x) ==
  LET h == x.hi % Limb
  IN  << h \div 256, h % 256, x.lo \div 256, x.lo % 256 >>

\* binary.BigEndian.PutUint32 of uint32(v)
PutUint32(v) == PutUint32W(Wide(v))

\* binary.BigEndian.PutUint16 of uint16(v)
PutUint16(v) ==
  LET u == v % 65536
  IN  << (u \div 256) % 256, u % 256 >>

\* the PNG signature "\x89PNG\r\n\x1a\n"
pngHeader == << 137, 80, 78, 71, 13, 10, 26, 10 >>

\* the concatenation of the byte strings ss[1], ss[2], ..., each k bytes long
Flatten(ss, k) == [i \in 1..(k * Len(ss)) |-> ss[((i - 1) \div k) + 1][((i - 1) % k) + 1]]

(***************************************************************************)
(* The output sink: an io.Writer whose failAt-th Write call fails,         *)
(* accepting nothing; w.n counts the Write calls made, failed or not.      *)
(***************************************************************************)
SinkFails(w) == w.n + 1 = w.failAt

\* w.Write(item): the sink after the call
SinkWrite(w, item) ==
  IF SinkFails(w) THEN [w EXCEPT !.n = w.n + 1]
  ELSE [w EXCEPT !.n = w.n + 1, !.out = Append(w.out, item)]

\* the error the call returns
SinkWriteErr(w) == IF SinkFails(w) THEN SinkErr ELSE NoErr

Item(k, tag, b) == [k |-> k, tag |-> tag, b |-> b]

(***************************************************************************)
(* encoder.writeChunk.  A machine state st pairs the session e with the    *)
(* sink w.  The CRC is written as the record of what it was computed over. *)
(***************************************************************************)
\* writeChunk without its test of e.err
writeChunk_noErrTest(st, b, name) ==
  IF ~FitsUint32(Wide(Len(b)))
  THEN [st EXCEPT !.e.err = UnsupportedErr]
  ELSE
    LET w1 == SinkWrite(st.w, Item("hdr", name, PutUint32(Len(b))))
        e1 == SinkWriteErr(st.w)
        w2 == SinkWrite(w1, Item("body", name, b))
        e2 == SinkWriteErr(w1)
        w3 == SinkWrite(w2, Item("crc", name, b))
        e3 == SinkWriteErr(w2)
    IN  IF e1 # NoErr THEN [st EXCEPT !.w = w1, !.e.err = e1]
        ELSE IF e2 # NoErr THEN [st EXCEPT !.w = w2, !.e.err = e2]
        ELSE [st EXCEPT !.w = w3, !.e.err = e3]

writeChunk(st, b, name) ==
  IF st.e.err # NoErr THEN st
  ELSE IF ~FitsUint32(Wide(Len(b)))
  THEN [st EXCEPT !.e.err = UnsupportedErr]
  ELSE
    LET w1 == SinkWrite(st.w, Item("hdr", name, PutUint32(Len(b))))
        e1 == SinkWriteErr(st.w)
        w2 == SinkWrite(w1, Item("body", name, b))
        e2 == SinkWriteErr(w1)
        w3 == SinkWrite(w2, Item("crc", name, b))
        e3 == SinkWriteErr(w2)
    IN  IF e1 # NoErr THEN [st EXCEPT !.w = w1, !.e.err = e1]
        ELSE IF e2 # NoErr THEN [st EXCEPT !.w = w2, !.e.err = e2]
        ELSE [st EXCEPT !.w = w3, !.e.err = e3]

(***************************************************************************)
(* Optional values: << >> is nil, << v >> is a pointer to (or a non-nil    *)
(* slice holding) v.                                                       *)
(***************************************************************************)
None == << >>
Some(v) == << v >>
Maybe(S) == { None } \cup { Some(v) : v \in S }

(***************************************************************************)
(* encoder.writeIHDR: bit depth and colour type of the chosen mode.        *)
(***************************************************************************)
\* colour types: ctGrayscale 0, ctTrueColor 2, ctPaletted 3, ctTrueColorAlpha 6
\* << bit depth, colour type >> of mode cb (the switch of writeIHDR)
DepthAndType(cb) ==
  CASE cb = "cbG8" -> << 8, 0 >>
    [] cb = "cbTC8" -> << 8, 2 >>
    [] cb = "cbP8" -> << 8, 3 >>
    [] cb = "cbP4" -> << 4, 3 >>
    [] cb = "cbP2" -> << 2, 3 >>
    [] cb = "cbP1" -> << 1, 3 >>
    [] cb = "cbTCA8" -> << 8, 6 >>
    [] cb = "cbG16" -> << 16, 0 >>
    [] cb = "cbTC16" -> << 16, 2 >>
    [] cb = "cbTCA16" -> << 16, 6 >>
    \* no case of the switch: bytes 8 and 9 of e.tmp keep what they held
    [] OTHER -> << 0, 0 >>

writeIHDR(st, m) ==
  writeChunk(st, PutUint32W(m.Dx) \o PutUint32W(m.Dy) \o DepthAndType(st.e.cb) \o << 0, 0, 0 >>,
             "IHDR")

(***************************************************************************)
(* encoder.writePLTEAndTRNS.  p is a sequence of NRGBA colours.            *)
(***************************************************************************)
\* the loop's last: the greatest index (from 1) of a colour that is not opaque, else 0
LastNonOpaque(p) ==
  LET S == { i \in 1..Len(p) : p[i].A # 255 }
  IN  IF S = {} THEN 0 ELSE CHOOSE i \in S : \A j \in S : j <= i

writePLTEAndTRNS(st, p) ==
  IF Len(p) < 1 \/ Len(p) > 256
  THEN [st EXCEPT !.e.err = FormatErr]
  ELSE
    LET last == LastNonOpaque(p)
        st1 == writeChunk(st, Flatten([i \in 1..Len(p) |-> << p[i].R, p[i].G, p[i].B >>], 3), "PLTE")
    IN  IF last # 0
        THEN writeChunk(st1, [i \in 1..last |-> p[i].A], "tRNS")
        ELSE st1

(***************************************************************************)
(* encoder.pngCompress: zlib.NewWriterLevel over a bytes.Buffer, which     *)
(* cannot fail, one Write of the input and Close.  The stream is the two   *)
(* header bytes of the level, the deflate blocks, and the Adler-32 of the  *)
(* input, as compress/zlib and compress/flate produce them:                *)
(*   - nothing is compressed for the empty input;                          *)
(*   - at zlib.NoCompression the input is one stored block;                *)
(*   - at the default level an input shorter than the shortest match       *)
(*     (4 bytes) is a block of literals in the fixed Huffman code;         *)
(*   - Close always adds a final empty stored block.                       *)
(* Longer inputs at a compressing level are not modelled.  Returns the     *)
(* compressed bytes; the method is always 0.                               *)
(***************************************************************************)
RECURSIVE SumBytes(_)
\* the sum of the bytes of b, by halves
SumBytes(b) ==
  IF b = << >> THEN 0
  ELSE IF Len(b) = 1 THEN b[1]
  ELSE LET h == Len(b) \div 2
       IN  SumBytes(SubSeq(b, 1, h)) + SumBytes(SubSeq(b, h + 1, Len(b)))

RECURSIVE SumSums(_)
\* the sum of the running sums of b: each byte times the number of bytes from it to the end
SumSums(b) ==
  IF b = << >> THEN 0
  ELSE IF Len(b) = 1 THEN b[1]
  ELSE LET h == Len(b) \div 2
           L == SubSeq(b, 1, h)
           R == SubSeq(b, h + 1, Len(b))
       IN  SumSums(L) + Len(R) * SumBytes(L) + SumSums(R)

\* the Adler-32 checksum of b, big-endian
adler32(b) ==
  LET s1 == (1 + SumBytes(b)) % 65521
      s2 == (Len(b) + SumSums(b)) % 65521
  IN  << s2 \div 256, s2 % 256, s1 \div 256, s1 % 256 >>

levelToZlib(l) ==
  CASE l = "DefaultCompression" -> -1
    [] l = "NoCompression" -> 0
    [] l = "BestSpeed" -> 1
    [] l = "BestCompression" -> 9
    [] OTHER -> -1

\* the header zlib.Writer writes: CMF, and FLG with the level's two bits and the check bits
zlibHeader(level) ==
  LET flg == CASE level \in { -2, 0, 1 } -> 0
               [] level \in 2..5 -> 64
               [] level \in { -1, 6 } -> 128
               [] level \in 7..9 -> 192
  IN  << 120, flg + (31 - ((120 * 256 + flg) % 31)) >>

\* the bit writer's output for a sequence of bits: least significant bit first, the last byte
\* padded with zeros
packBits(bits) ==
  [j \in 1..((Len(bits) + 7) \div 8) |->
     LET bit(i) == IF 8 * (j - 1) + i <= Len(bits) THEN bits[8 * (j - 1) + i] ELSE 0
     IN  bit(1) + 2 * bit(2) + 4 * bit(3) + 8 * bit(4) + 16 * bit(5) + 32 * bit(6)
           + 64 * bit(7) + 128 * bit(8)]

\* LEN and NLEN of a stored block
storedLength(n) == << n % 256, n \div 256, 255 - (n % 256), 255 - (n \div 256) >>

\* the fixed Huffman code of literal x, first bit first
fixedCode(x) ==
  IF x < 144 THEN [k \in 1..8 |-> ((48 + x) \div (2 ^ (8 - k))) % 2]
  ELSE [k \in 1..9 |-> ((400 + x - 144) \div (2 ^ (9 - k))) % 2]

RECURSIVE literalBits(_)
literalBits(b) == IF b = << >> THEN << >> ELSE fixedCode(Head(b)) \o literalBits(Tail(b))

\* compress/flate: Write(input) and Close at the level
deflate(level, input) ==
  CASE input = << >> ->
         << 1 >> \o storedLength(0)
    [] input # << >> /\ level = 0 /\ Len(input) <= 65535 ->
         << 0 >> \o storedLength(Len(input)) \o input \o << 1 >> \o storedLength(0)
    [] input # << >> /\ level \in { -1, 6 } /\ Len(input) < 4 ->
         \* a block in the fixed code, not final: the literals and the end-of-block code;
         \* then the header of the final stored block
         packBits(<< 0, 1, 0 >> \o literalBits(input) \o << 0, 0, 0, 0, 0, 0, 0 >>
                    \o << 1, 0, 0 >>)
           \o storedLength(0)

pngCompress(l, input) ==
  LET level == levelToZlib(l)
  IN  zlibHeader(level) \o deflate(level, input) \o adler32(input)

(***************************************************************************)
(* The metadata writers.  md is the *Metadata of the call: None or         *)
(* Some(bundle).                                                           *)
(***************************************************************************)
maybeWriteGAMA(st, md) ==
  IF md = None \/ md[1].Gamma = None THEN st
  ELSE IF st.e.err # NoErr THEN st
  ELSE writeChunk(st, PutUint32(md[1].Gamma[1]), "gAMA")

maybeWriteCHRM(st, md) ==
  IF md = None \/ md[1].Chroma = None THEN st
  ELSE IF st.e.err # NoErr THEN st
  ELSE LET c == md[1].Chroma[1]
       IN  writeChunk(st, PutUint32(c.WhiteX) \o PutUint32(c.WhiteY) \o PutUint32(c.RedX)
                          \o PutUint32(c.RedY) \o PutUint32(c.GreenX) \o PutUint32(c.GreenY)
                          \o PutUint32(c.BlueX) \o PutUint32(c.BlueY), "cHRM")

maybeWriteSRGB(st, md) ==
  IF md = None \/ md[1].SRGBIntent = None THEN st
  ELSE IF st.e.err # NoErr THEN st
  ELSE writeChunk(st, << md[1].SRGBIntent[1] % 256 >>, "sRGB")

\* LastModified is given in UTC already
maybeWriteTIME(st, md) ==
  IF st.e.err # NoErr \/ md = None \/ md[1].LastModified = None THEN st
  ELSE LET utc == md[1].LastModified[1]
       IN  writeChunk(st, PutUint16(utc.Year) \o << utc.Month % 256, utc.Day % 256,
                          utc.Hour % 256, utc.Minute % 256, utc.Second % 256 >>, "tIME")

maybeWritePHYS(st, md) ==
  IF md = None \/ md[1].Dimension = None THEN st
  ELSE IF st.e.err # NoErr THEN st
  ELSE LET d == md[1].Dimension[1]
       IN  writeChunk(st, PutUint32(d.X) \o PutUint32(d.Y) \o << d.Unit % 256 >>, "pHYs")

maybeWriteHIST(st, md) ==
  IF md = None \/ md[1].Histogram = None THEN st
  ELSE IF st.e.err # NoErr THEN st
  ELSE LET h == md[1].Histogram[1]
       IN  writeChunk(st, Flatten([i \in 1..Len(h) |-> PutUint16(h[i])], 2), "hIST")

\* An ICC or XMP object is [fails, bytes]: what its Encode hook returns.
maybeWriteICCP(st, md) ==
  IF md = None \/ st.e.err # NoErr THEN st
  ELSE IF md[1].icc = None /\ Len(md[1].rawIcc) = 0 THEN st
  ELSE IF md[1].icc # None
  THEN IF md[1].icc[1].fails
       THEN [st EXCEPT !.e.err = IccHookErr, !.hooks = st.hooks + 1]
       ELSE writeChunk([st EXCEPT !.hooks = st.hooks + 1],
                       md[1].iccName \o << 0, 0 >>
                         \o pngCompress(st.enc.CompressionLevel, md[1].icc[1].bytes), "iCCP")
  \* only the raw blob: it is assigned to the local chunk and nothing is written
  ELSE st

(***************************************************************************)
(* The text writers.  A TextEntry is [EntryType, Key, Value, LanguageTag,  *)
(* TranslatedKey], its strings sequences of ASCII bytes.                   *)
(***************************************************************************)
\* len(e.tmp), the session's temporary buffer
TmpSize == 1024

\* the reserved key of the XMP entry, "XML:com.adobe.xmp"
xmpTextKey == << 88, 77, 76, 58, 99, 111, 109, 46, 97, 100, 111, 98, 101, 46, 120, 109, 112 >>

maybeWriteTEXT(st, t) ==
  IF st.e.err # NoErr THEN st
  ELSE writeChunk(st, t.Key \o << 0 >> \o t.Value, "tEXt")

\* The payload is assembled in e.tmp: indexing or slicing past its end panics.
maybeWriteZTXT(st, t) ==
  IF st.e.err # NoErr THEN st
  ELSE LET val == pngCompress(st.enc.CompressionLevel, t.Value)
           length == Len(t.Key) + 2 + Len(val)
       IN  IF Len(t.Key) + 1 >= TmpSize \/ length > TmpSize
           THEN [st EXCEPT !.panic = TRUE]
           ELSE writeChunk(st, t.Key \o << 0, 0 >> \o val, "zTXt")

maybeWriteITXT(st, t) ==
  IF st.e.err # NoErr THEN st
  ELSE LET val == pngCompress(st.enc.CompressionLevel, t.Value)
       IN  writeChunk(st, t.Key \o << 0, 1, 0 >> \o t.LanguageTag \o << 0 >>
                          \o t.TranslatedKey \o << 0 >> \o val, "iTXt")

TextEntry(type, key, value) ==
  [EntryType |-> type, Key |-> key, Value |-> value, LanguageTag |-> << >>,
   TranslatedKey |-> << >>]

\* the switch on v.EntryType in the loop over metadata.Text
writeTextEntry(st, v) ==
  CASE v.EntryType = "EtText" -> maybeWriteTEXT(st, v)
    [] v.EntryType = "EtZtext" -> maybeWriteZTXT(st, v)
    [] v.EntryType = "EtItext" -> maybeWriteITXT(st, v)
    [] OTHER -> st

maybeWriteXMP(st, md) ==
  IF md = None \/ (md[1].rawXmp = None /\ md[1].xmp = None) THEN st
  ELSE IF st.e.err # NoErr THEN st
  ELSE IF md[1].xmp # None
  THEN IF md[1].xmp[1].fails
       THEN [st EXCEPT !.e.err = XmpHookErr, !.hooks = st.hooks + 1]
       ELSE maybeWriteITXT([st EXCEPT !.hooks = st.hooks + 1],
                           TextEntry("EtItext", xmpTextKey, md[1].xmp[1].bytes))
  ELSE maybeWriteITXT(st, TextEntry("EtItext", xmpTextKey, md[1].rawXmp[1]))

(***************************************************************************)
(* The IDAT stream.  e.bw is the bufio.Writer over the encoder (buf: the   *)
(* buffered bytes, err: its sticky error); e.zw is the zlib writer (n: the *)
(* bytes it has produced so far, err: its sticky error).  The compressed   *)
(* bytes are numbered 1, 2, ... in the order the compressor produces them. *)
(***************************************************************************)
\* encoder.Write: one IDAT chunk; << state, n written >>
encoderWrite(st, b) ==
  LET st1 == writeChunk(st, b, "IDAT")
  IN  IF st1.e.err # NoErr THEN << st1, 0 >> ELSE << st1, Len(b) >>

\* bufio.Writer.Flush
bwFlush(st) ==
  IF st.e.bw.err # NoErr THEN st
  ELSE IF st.e.bw.buf = << >> THEN st
  ELSE LET r == encoderWrite(st, st.e.bw.buf)
       IN  IF r[1].e.err # NoErr
           THEN [r[1] EXCEPT !.e.bw.err = r[1].e.err]
           ELSE [r[1] EXCEPT !.e.bw.buf = << >>]

RECURSIVE bwWrite(_, _)
\* bufio.Writer.Write
bwWrite(st, p) ==
  LET avail == BufSize - Len(st.e.bw.buf)
  IN  IF Len(p) > avail /\ st.e.bw.err = NoErr
      THEN IF st.e.bw.buf = << >>
           \* large write, empty buffer: straight to the encoder
           THEN LET r == encoderWrite(st, p)
                IN  IF r[1].e.err # NoErr
                    THEN [r[1] EXCEPT !.e.bw.err = r[1].e.err]
                    ELSE r[1]
           ELSE LET filled == [st EXCEPT !.e.bw.buf = st.e.bw.buf \o SubSeq(p, 1, avail)]
                IN  bwWrite(bwFlush(filled), SubSeq(p, avail + 1, Len(p)))
      ELSE IF st.e.bw.err # NoErr THEN st
      ELSE [st EXCEPT !.e.bw.buf = st.e.bw.buf \o p]

\* the next k bytes of the compressed stream
Produced(zw, k) == [i \in 1..k |-> zw.n + i]

\* zlib.Writer.Write of one filtered row, of which the compressor emits k bytes
zwWrite(st, k) ==
  IF st.e.zw.err # NoErr THEN st
  ELSE LET st1 == bwWrite([st EXCEPT !.e.zw.n = st.e.zw.n + k], Produced(st.e.zw, k))
       IN  [st1 EXCEPT !.e.zw.err = st1.e.bw.err]

\* zlib.Writer.Close: the final block and the checksum, k bytes
zwClose(st, k) == zwWrite(st, k)

(***************************************************************************)
(* Inputs: metadata bundles.                                               *)
(***************************************************************************)
EmptyBundle ==
  [validateErr |-> FALSE, Gamma |-> None, Chroma |-> None, SRGBIntent |-> None,
   LastModified |-> None, icc |-> None, rawIcc |-> << >>, iccName |-> << 105 >>,
   Dimension |-> None, rawXmp |-> None, xmp |-> None, Text |-> << >>, Histogram |-> None]

GammaV == Some(45455)
ChromaV == Some([WhiteX |-> 31270, WhiteY |-> 32900, RedX |-> 64000, RedY |-> 33000,
                 GreenX |-> 30000, GreenY |-> 60000, BlueX |-> 15000, BlueY |-> 6000])
SRGBV == Some(1)
TimeV == Some([Year |-> 2026, Month |-> 10, Day |-> 30, Hour |-> 20, Minute |-> 40, Second |-> 7])
DimensionV == Some([X |-> 2835, Y |-> 2835, Unit |-> 1])
HistogramV == Some(<< 1, 300 >>)
RawIccV == << 9, 8, 7 >>
HookOk(b) == Some([fails |-> FALSE, bytes |-> b])
HookFails == Some([fails |-> TRUE, bytes |-> << >>])

\* the five fixed-layout fields, present as the set F says
WithSimple(b, F) ==
  [b EXCEPT !.Gamma = IF "gAMA" \in F THEN GammaV ELSE None,
            !.Chroma = IF "cHRM" \in F THEN ChromaV ELSE None,
            !.SRGBIntent = IF "sRGB" \in F THEN SRGBV ELSE None,
            !.LastModified = IF "tIME" \in F THEN TimeV ELSE None,
            !.Dimension = IF "pHYs" \in F THEN DimensionV ELSE None]

SimpleTags == { "gAMA", "cHRM", "sRGB", "tIME", "pHYs" }

\* the text entries a bundle's list is drawn from: one of each type
TextPool ==
  { TextEntry("EtText", << 75 >>, << 118 >>),
    TextEntry("EtZtext", << 76 >>, << 119, 120 >>),
    [TextEntry("EtItext", << 77 >>, << 121 >>) EXCEPT !.LanguageTag = << 101, 110 >>,
                                                     !.TranslatedKey = << 107 >>] }

RECURSIVE SeqsUpTo(_, _)
\* the sequences over S of length at most n
SeqsUpTo(S, n) ==
  IF n = 0 THEN { << >> }
  ELSE LET R == SeqsUpTo(S, n - 1)
       IN  R \cup { Append(r, x) : r \in { q \in R : Len(q) = n - 1 }, x \in S }

\* every ICC, XMP, text and histogram combination, with none or all of the fixed-layout fields
RichBundles ==
  { [WithSimple(EmptyBundle, F) EXCEPT !.icc = i, !.rawIcc = ri, !.rawXmp = rx, !.xmp = x,
                                       !.Text = t, !.Histogram = h] :
      F \in { {}, SimpleTags }, i \in { None, HookOk(<< 5, 6 >>), HookFails },
      ri \in { << >>, RawIccV }, rx \in { None, Some(<< 60 >>) },
      x \in { None, HookOk(<< 62 >>), HookFails }, t \in SeqsUpTo(TextPool, MaxText),
      h \in { None, HistogramV } }

\* every choice of the fixed-layout fields
SimpleBundles == { WithSimple(EmptyBundle, F) : F \in SUBSET SimpleTags }

\* the bundle of the metadata ordering scenario, with an ICC object, a text entry and a histogram
SmallBundle ==
  [WithSimple(EmptyBundle, { "gAMA", "pHYs" }) EXCEPT
     !.icc = HookOk(<< 5, 6 >>), !.Text = << TextEntry("EtZtext", << 76 >>, << 119, 120 >>) >>,
     !.Histogram = HistogramV]

(***************************************************************************)
(* Inputs: images.  A fresh image gives its bounds, whether it is a        *)
(* PalettedImage, its ColorModel() (for "Palette" the slice Palette: None  *)
(* is the nil slice), its Opaque() method if it has one, the alpha of its  *)
(* pixels in row order and, per row and for Close, how many bytes the      *)
(* compressor emits (zemit).  A *Deferred gives its captured chunks.       *)
(***************************************************************************)
BaseImage ==
  [deferred |-> FALSE, Dx |-> Wide(1), Dy |-> Wide(1), PalettedImage |-> FALSE, ColorModel |-> "GrayModel",
   Palette |-> None, Opaquer |-> None, Alpha |-> << 65535 >>, AtNil |-> FALSE,
   zemit |-> << 0, 2 >>,
   ihdr |-> None, plte |-> None, trns |-> None, idat |-> None]

\* a palette of n colours, the colours at the indices in T not opaque
MkPalette(n, T) ==
  [i \in 1..n |-> [R |-> i % 256, G |-> (2 * i) % 256, B |-> 7, A |-> IF i \in T THEN 0 ELSE 255]]

PalettedImg(pal) ==
  [BaseImage EXCEPT !.PalettedImage = TRUE, !.ColorModel = "Palette", !.Palette = pal]

\* captured chunks, each with the 4 CRC bytes it was read with
IhdrBlob == << 0, 0, 0, 1, 0, 0, 0, 1, 8, 0, 0, 0, 0, 201, 202, 203, 204 >>
PlteBlob == << 10, 20, 30, 211, 212, 213, 214 >>
TrnsBlob == << 0, 221, 222, 223, 224 >>
IdatBlob == << 120, 1, 2, 231, 232, 233, 234 >>

DeferredImg(plte, trns, idat) ==
  [BaseImage EXCEPT !.deferred = TRUE, !.ihdr = Some(IhdrBlob), !.plte = plte, !.trns = trns,
                    !.idat = idat, !.zemit = << >>]

\* every combination of captured chunks, and a deferred source whose bounds are empty
DeferredImages ==
  { DeferredImg(p, t, d) : p \in { None, Some(PlteBlob) }, t \in { None, Some(TrnsBlob) },
                           d \in { None, Some(IdatBlob) } }
    \cup { [DeferredImg(None, None, Some(IdatBlob)) EXCEPT !.Dx = Wide(0)] }

\* 1 << 32
Two32 == [hi |-> Limb, lo |-> 0]

\* images whose bounds fail the size check
BadSizeImages ==
  { [BaseImage EXCEPT !.Dx = d[1], !.Dy = d[2]] :
      d \in { << Wide(0), Wide(1) >>, << Wide(1), Wide(0) >>, << Wide(0 - 1), Wide(1) >>,
              << Wide(1), Wide(0 - 5) >>, << Two32, Wide(1) >>, << Wide(1), Two32 >> } }

\* the widest image that passes the size check: 2^32 - 1 pixels in its one row
WidestImage == [BaseImage EXCEPT !.Dx = [hi |-> Limb - 1, lo |-> Limb - 1]]

\* images without a palette: every colour model, with and without Opaque(), opaque or not
ModelImages ==
  { [BaseImage EXCEPT !.ColorModel = cm, !.Opaquer = o, !.Alpha = a, !.Dx = Wide(Len(a))] :
      cm \in { "GrayModel", "Gray16Model", "RGBAModel", "NRGBAModel", "AlphaModel", "RGBA64Model" },
      o \in { None, Some(TRUE), Some(FALSE) },
      a \in { << 65535 >>, << 0 >>, << 65535, 32768 >> } }

PaletteLengths == { 0, 1, 2, 3, 4, 5, 16, 17, 256, 257 }

\* the image.Paletted whose Palette is nil: its At returns the nil color.Color
NilPaletted == [PalettedImg(None) EXCEPT !.AtNil = TRUE, !.Opaquer = Some(TRUE)]

\* paletted images: the nil palette, and every length with and without a transparent colour
PaletteImages ==
  { PalettedImg(None), NilPaletted }
    \cup { PalettedImg(Some(MkPalette(n, T))) : n \in PaletteLengths, T \in { {}, { 2 } } }

\* images of up to MaxRows rows with every emission schedule of the compressor
StreamImages ==
  UNION { { [BaseImage EXCEPT !.Dy = Wide(h), !.Alpha = [i \in 1..h |-> 65535], !.zemit = z] :
              z \in { q \in [1..(h + 1) -> 0..MaxEmit] : q[h + 1] >= 1 } } : h \in 1..MaxRows }

(***************************************************************************)
(* Inputs: the arguments of one call, [opts, m, failAt].  An option is     *)
(* [kind, md]: a *Metadata with its bundle, or a value of another type.    *)
(***************************************************************************)
OptMd(b) == [kind |-> "Metadata", md |-> b]
OptOther == [kind |-> "Other", md |-> EmptyBundle]
InvalidBundle == [WithSimple(EmptyBundle, SimpleTags) EXCEPT !.validateErr = TRUE]

Call(opts, m, failAt) == [opts |-> opts, m |-> m, failAt |-> failAt]

\* every metadata combination on a fresh and on a deferred image, the sink never failing
MetadataCalls ==
  { Call(<< OptMd(b) >>, m, 0) :
      b \in RichBundles \cup SimpleBundles,
      m \in { BaseImage, DeferredImg(Some(PlteBlob), Some(TrnsBlob), Some(IdatBlob)) } }

\* every option list of up to two options
OptionCalls ==
  { Call(o, m, 0) :
      o \in SeqsUpTo({ OptMd(SmallBundle), OptMd(InvalidBundle), OptOther }, 2),
      m \in { BaseImage } \cup BadSizeImages }

\* every image, without and with metadata, the sink never failing
ImageCalls ==
  { Call(o, m, 0) :
      o \in { << >>, << OptMd(SmallBundle) >> },
      m \in BadSizeImages \cup { WidestImage } \cup ModelImages \cup PaletteImages
              \cup DeferredImages }

\* the sink failing at every position, on the images and bundles that reach every writer
FailingCalls ==
  { Call(o, m, f) :
      o \in { << >>, << OptMd(SmallBundle) >>,
              << OptMd([SmallBundle EXCEPT !.icc = HookFails]) >>,
              << OptMd([SmallBundle EXCEPT !.icc = None, !.xmp = HookFails]) >> },
      m \in { BaseImage, PalettedImg(None), PalettedImg(Some(<< >>)),
              PalettedImg(Some(MkPalette(3, { 2 }))), PalettedImg(Some(MkPalette(257, {}))),
              DeferredImg(Some(PlteBlob), Some(TrnsBlob), Some(IdatBlob)),
              DeferredImg(None, None, None) },
      f \in 0..MaxFailAt }

\* the IDAT stream under every emission schedule and every failure position
StreamCalls == { Call(<< >>, m, f) : m \in StreamImages, f \in 0..MaxFailAt }

\* the calls made on an Encoder with a buffer pool
PooledCalls ==
  { Call(o, m, f) :
      o \in { << >>, << OptMd([SmallBundle EXCEPT !.xmp = HookFails]) >>, << OptOther >> },
      m \in { BaseImage, PalettedImg(Some(<< >>)), PalettedImg(Some(MkPalette(3, { 2 }))),
              NilPaletted, DeferredImg(None, None, Some(IdatBlob)),
              [BaseImage EXCEPT !.Dx = Wide(0)], [BaseImage EXCEPT !.Dy = Two32] },
      f \in { 0, 1, 2, 5, 8 } }

\* a string of n ASCII letters
Letters(n) == [i \in 1..n |-> 97 + (i % 26)]

\* [key length, value length] of the zTXt entries around len(e.tmp).  Without compression
\* the stream of a value of n > 0 bytes has n + 16 bytes: the longest value that fits with a
\* key of one byte, and one byte more.  The stream of the empty value has 11 bytes at every
\* level: the longest key that fits, one byte more, and a key that reaches the end of e.tmp.
ZtxtSizes(l) ==
  IF l = "NoCompression"
  THEN { << 1, TmpSize - 19 >>, << 1, TmpSize - 18 >> }
  ELSE { << TmpSize - 13, 0 >>, << TmpSize - 12, 0 >>, << TmpSize - 1, 0 >> }

\* a long zTXt entry followed by a tEXt entry, the sink never failing or failing in the zTXt chunk
LongTextCalls(l) ==
  { Call(<< OptMd([EmptyBundle EXCEPT
                     !.Text = << TextEntry("EtZtext", Letters(s[1]), Letters(s[2])),
                                 TextEntry("EtText", << 75 >>, << 118 >>) >>]) >>,
         BaseImage, f) :
      s \in ZtxtSizes(l), f \in { 0, 5, 6, 7 } }

\* the calls on an Encoder that does not compress: the long entries, and every compressed
\* payload (iCCP, zTXt, iTXt) on a fresh and on a paletted image
StoredCalls ==
  LongTextCalls("NoCompression")
    \cup { Call(<< OptMd([SmallBundle EXCEPT !.Text = t]) >>, m, 0) :
             t \in SeqsUpTo(TextPool, MaxText),
             m \in { BaseImage, PalettedImg(Some(MkPalette(3, { 2 }))) } }

\* the Encoders: without and with a buffer pool, and one that does not compress
Encoders ==
  { [BufferPool |-> FALSE, CompressionLevel |-> "DefaultCompression"],
    [BufferPool |-> TRUE, CompressionLevel |-> "DefaultCompression"],
    [BufferPool |-> FALSE, CompressionLevel |-> "NoCompression"] }

Calls(en) ==
  IF en.BufferPool THEN PooledCalls
  ELSE IF en.CompressionLevel = "NoCompression" THEN StoredCalls
  ELSE MetadataCalls \cup OptionCalls \cup ImageCalls \cup FailingCalls \cup StreamCalls
         \cup LongTextCalls("DefaultCompression")

(***************************************************************************)
(* State.                                                                  *)
(***************************************************************************)
VARIABLES
  enc,       \* the Encoder: [BufferPool], whether a buffer pool is configured
  pool,      \* the buffer pool: the sessions that were Put and not yet handed out again
  gets,      \* the calls of BufferPool.Get so far
  puts,      \* the calls of BufferPool.Put so far
  pc,        \* where EncodeExtended stands: "idle", a step of the call, "done"
  arg,       \* the arguments of the call: [opts, m]
  metadata,  \* the local metadata: None or Some(bundle)
  e,         \* the session (*encoder) of the call
  w,         \* the output sink: [out, n, failAt]
  hooks,     \* the calls of the ICC and XMP Encode hooks in this call
  panic,     \* whether the call has panicked
  ti,        \* the entries of metadata.Text gone through
  y,         \* the rows of the image handed to the compressor
  ret,       \* the value the call returned
  scratch,   \* the session's row buffers e.cr[0..4] and e.pr: [name -> [mem, len]], mem the
             \* backing array (its length the capacity), len the length of the slice
  wi,        \* the frame of writeImage: [pc, m, y, swapped, f, raw, prev], raw the bytes of
             \* the row converted last and prev those of the row before it
  images     \* the calls of writeImage on the session so far

\* the row buffers and the frame of writeImage, which Spec abstracts into the number of
\* bytes the compressor emits per row (m.zemit), and which RowSpec and FilterSpec follow
rowVars == << scratch, wi, images >>

vars ==
  << enc, pool, gets, puts, pc, arg, metadata, e, w, hooks, panic, ti, y, ret, scratch, wi,
     images >>

\* the row buffers of &encoder{}: nil slices
BufNames == { "cr0", "cr1", "cr2", "cr3", "cr4", "pr" }
NilScratch == [b \in BufNames |-> [mem |-> << >>, len |-> 0]]

\* no call of writeImage under way
NoFrame ==
  [pc |-> "idle", m |-> [cb |-> "cbInvalid", Dx |-> 0, Dy |-> 0, level |-> "", pix |-> "", failAt |-> 0],
   y |-> 0, swapped |-> FALSE, f |-> 0, raw |-> << >>, prev |-> << >>]

\* &encoder{}
ZeroEncoder ==
  [err |-> NoErr, cb |-> "cbInvalid", bw |-> [buf |-> << >>, err |-> NoErr],
   zw |-> [n |-> 0, err |-> NoErr]]

NoCall == Call(<< >>, BaseImage, 0)
NewSink(failAt) == [out |-> << >>, n |-> 0, failAt |-> failAt]

\* what the writers of the session work on; st.enc is e.enc
St == [e |-> e, w |-> w, hooks |-> hooks, panic |-> panic, enc |-> enc]
Apply(st) == e' = st.e /\ w' = st.w /\ hooks' = st.hooks /\ panic' = st.panic

Init ==
  /\ enc \in Encoders
  /\ pool = << >>
  /\ gets = 0
  /\ puts = 0
  /\ pc = "idle"
  /\ arg = [opts |-> << >>, m |-> BaseImage]
  /\ metadata = None
  /\ e = ZeroEncoder
  /\ w = NewSink(0)
  /\ hooks = 0
  /\ panic = FALSE
  /\ ti = 0
  /\ y = 0
  /\ ret = NoErr
  /\ scratch = NilScratch
  /\ wi = NoFrame
  /\ images = 0

(***************************************************************************)
(* A call of enc.EncodeExtended(ctx, w, m, opts...) with a sink of its own.*)
(***************************************************************************)
StartCall ==
  /\ pc = "idle"
  /\ enc.BufferPool => gets < MaxGets
  /\ \E c \in Calls(enc) :
       /\ arg' = [opts |-> c.opts, m |-> c.m]
       /\ w' = NewSink(c.failAt)
  /\ pc' = "opts"
  /\ UNCHANGED << rowVars, enc, pool, gets, puts, metadata, e, hooks, panic, ti, y, ret >>

RECURSIVE scanOpts(_, _)
\* the loop over opts: [err, metadata]
scanOpts(opts, md) ==
  IF opts = << >> THEN [err |-> NoErr, metadata |-> md]
  ELSE IF Head(opts).kind = "Metadata"
  THEN IF md # None THEN [err |-> MultipleErr, metadata |-> md]
       ELSE IF Head(opts).md.validateErr
       THEN [err |-> ValidateErr, metadata |-> Some(Head(opts).md)]
       ELSE scanOpts(Tail(opts), Some(Head(opts).md))
  ELSE [err |-> UnknownOptErr, metadata |-> md]

ParseOpts ==
  /\ pc = "opts"
  /\ LET r == scanOpts(arg.opts, None)
     IN  /\ metadata' = r.metadata
         /\ ret' = r.err
         /\ pc' = IF r.err # NoErr THEN "done" ELSE "size"
  /\ UNCHANGED << rowVars, enc, pool, gets, puts, arg, e, w, hooks, panic, ti, y >>

\* invalidSize without the upper bound
invalidSize_noUpperBound(m) == WideNonPositive(m.Dx) \/ WideNonPositive(m.Dy)

\* the size validation of a source that is not deferred
invalidSize(m) ==
  WideNonPositive(m.Dx) \/ WideNonPositive(m.Dy) \/ WideAtLeast2_32(m.Dx) \/ WideAtLeast2_32(m.Dy)

CheckSize ==
  /\ pc = "size"
  /\ IF ~arg.m.deferred /\ invalidSize(arg.m)
     THEN ret' = FormatErr /\ pc' = "done"
     ELSE ret' = ret /\ pc' = "acquire"
  /\ UNCHANGED << rowVars, enc, pool, gets, puts, arg, metadata, e, w, hooks, panic, ti, y >>

\* BufferPool.Get (nil when the pool holds no session), e = &encoder{} if nil
Acquire ==
  /\ pc = "acquire"
  /\ IF enc.BufferPool
     THEN /\ gets' = gets + 1
          /\ IF pool # << >>
             THEN e' = Head(pool) /\ pool' = Tail(pool)
             ELSE e' = ZeroEncoder /\ pool' = pool
     ELSE e' = ZeroEncoder /\ UNCHANGED << gets, pool >>
  /\ pc' = "mode"
  /\ UNCHANGED << rowVars, enc, puts, arg, metadata, w, hooks, panic, ti, y, ret >>

(***************************************************************************)
(* Mode selection.                                                         *)
(***************************************************************************)
\* opaque(m) looking at the first pixel only
opaque_firstPixelOnly(m) ==
  IF m.Opaquer # None THEN m.Opaquer[1] ELSE m.Alpha[1] = 65535

\* opaque(m): the image's own Opaque() if it has one, else the scan of every pixel's alpha
opaque(m) ==
  IF m.Opaquer # None THEN m.Opaquer[1]
  ELSE \A i \in 1..Len(m.Alpha) : m.Alpha[i] = 65535

\* pal: the palette of a PalettedImage whose colour model is a color.Palette, else nil
paletteOf(m) == IF m.PalettedImage /\ m.ColorModel = "Palette" THEN m.Palette ELSE None

\* the value given to e.cb for a source that is not deferred
selectMode(m) ==
  LET pal == paletteOf(m)
  IN  IF pal # None
      THEN IF Len(pal[1]) <= 2 THEN "cbP1"
           ELSE IF Len(pal[1]) <= 4 THEN "cbP2"
           ELSE IF Len(pal[1]) <= 16 THEN "cbP4"
           ELSE "cbP8"
      ELSE CASE m.ColorModel = "GrayModel" -> "cbG8"
             [] m.ColorModel = "Gray16Model" -> "cbG16"
             [] m.ColorModel \in { "RGBAModel", "NRGBAModel", "AlphaModel" } ->
                  IF opaque(m) THEN "cbTC8" ELSE "cbTCA8"
             [] OTHER -> IF opaque(m) THEN "cbTC16" ELSE "cbTCA16"

SelectMode ==
  /\ pc = "mode"
  /\ e' = IF arg.m.deferred THEN e ELSE [e EXCEPT !.cb = selectMode(arg.m)]
  /\ pc' = "sig"
  /\ UNCHANGED << rowVars, enc, pool, gets, puts, arg, metadata, w, hooks, panic, ti, y, ret >>

(***************************************************************************)
(* The writes of EncodeExtended, in the order of its statements.           *)
(***************************************************************************)
\* After with maybeWritePHYS called ahead of maybeWriteICCP
After_physBeforeICCP(p) ==
  CASE p = "gama" -> "chrm"
    [] p = "chrm" -> "srgb"
    [] p = "srgb" -> "time"
    [] p = "time" -> "phys"
    [] p = "phys" -> "iccp"
    [] p = "iccp" -> "xmp"
    [] p = "xmp" -> "text"
    [] p = "text" -> "plte"
    [] p = "plte" -> "hist"
    [] p = "hist" -> "idat"
    [] p = "idat" -> "iend"
    [] p = "iend" -> "ret"

\* the statement that follows statement p of the metadata block and of the tail of the call
After(p) ==
  CASE p = "gama" -> "chrm"
    [] p = "chrm" -> "srgb"
    [] p = "srgb" -> "time"
    [] p = "time" -> "iccp"
    [] p = "iccp" -> "phys"
    [] p = "phys" -> "xmp"
    [] p = "xmp" -> "text"
    [] p = "text" -> "plte"
    [] p = "plte" -> "hist"
    [] p = "hist" -> "idat"
    [] p = "idat" -> "iend"
    [] p = "iend" -> "ret"

\* StripCRC keeping the CRC bytes the chunk was read with
StripCRC_keepCRC(blob) == blob

\* a captured chunk without the 4 CRC bytes it was read with
StripCRC(blob) == SubSeq(blob, 1, Len(blob) - 4)

\* _, e.err = io.WriteString(w, pngHeader)
WriteSignature ==
  /\ pc = "sig"
  /\ w' = SinkWrite(w, Item("sig", "", pngHeader))
  /\ e' = [e EXCEPT !.err = SinkWriteErr(w)]
  /\ pc' = "ihdr"
  /\ UNCHANGED << rowVars, enc, pool, gets, puts, arg, metadata, hooks, panic, ti, y, ret >>

WriteIHDR ==
  /\ pc = "ihdr"
  /\ Apply(IF arg.m.deferred
           THEN writeChunk(St, StripCRC(arg.m.ihdr[1]), "IHDR")
           ELSE writeIHDR(St, arg.m))
  /\ pc' = IF metadata # None THEN "gama" ELSE "plte"
  /\ UNCHANGED << rowVars, enc, pool, gets, puts, arg, metadata, ti, y, ret >>

WriteGAMA ==
  /\ pc = "gama"
  /\ Apply(maybeWriteGAMA(St, metadata))
  /\ pc' = After(pc)
  /\ UNCHANGED << rowVars, enc, pool, gets, puts, arg, metadata, ti, y, ret >>

WriteCHRM ==
  /\ pc = "chrm"
  /\ Apply(maybeWriteCHRM(St, metadata))
  /\ pc' = After(pc)
  /\ UNCHANGED << rowVars, enc, pool, gets, puts, arg, metadata, ti, y, ret >>

WriteSRGB ==
  /\ pc = "srgb"
  /\ Apply(maybeWriteSRGB(St, metadata))
  /\ pc' = After(pc)
  /\ UNCHANGED << rowVars, enc, pool, gets, puts, arg, metadata, ti, y, ret >>

WriteTIME ==
  /\ pc = "time"
  /\ Apply(maybeWriteTIME(St, metadata))
  /\ pc' = After(pc)
  /\ UNCHANGED << rowVars, enc, pool, gets, puts, arg, metadata, ti, y, ret >>

WriteICCP ==
  /\ pc = "iccp"
  /\ Apply(maybeWriteICCP(St, metadata))
  /\ pc' = After(pc)
  /\ UNCHANGED << rowVars, enc, pool, gets, puts, arg, metadata, ti, y, ret >>

WritePHYS ==
  /\ pc = "phys"
  /\ Apply(maybeWritePHYS(St, metadata))
  /\ pc' = After(pc)
  /\ UNCHANGED << rowVars, enc, pool, gets, puts, arg, metadata, ti, y, ret >>

WriteXMP ==
  /\ pc = "xmp"
  /\ Apply(maybeWriteXMP(St, metadata))
  /\ pc' = After(pc)
  /\ UNCHANGED << rowVars, enc, pool, gets, puts, arg, metadata, ti, y, ret >>

\* one turn of the loop over metadata.Text; a panic unwinds to the deferred Put
WriteText ==
  /\ pc = "text"
  /\ IF ti < Len(metadata[1].Text)
     THEN LET st == writeTextEntry(St, metadata[1].Text[ti + 1])
          IN  /\ Apply(st)
              /\ ti' = ti + 1
              /\ pc' = IF st.panic THEN "ret" ELSE pc
     ELSE /\ pc' = After(pc)
          /\ ti' = 0
          /\ UNCHANGED << e, w, hooks, panic >>
  /\ UNCHANGED << rowVars, enc, pool, gets, puts, arg, metadata, y, ret >>

\* the palette: the captured PLTE and tRNS of a deferred source, else writePLTEAndTRNS
WritePLTE ==
  /\ pc = "plte"
  /\ Apply(IF arg.m.deferred
           THEN LET st1 == IF arg.m.plte # None
                           THEN writeChunk(St, StripCRC(arg.m.plte[1]), "PLTE")
                           ELSE St
                IN  IF arg.m.trns # None
                    THEN writeChunk(st1, StripCRC(arg.m.trns[1]), "tRNS")
                    ELSE st1
           ELSE IF paletteOf(arg.m) # None
                THEN writePLTEAndTRNS(St, paletteOf(arg.m)[1])
                ELSE St)
  /\ pc' = After(pc)
  /\ UNCHANGED << rowVars, enc, pool, gets, puts, arg, metadata, ti, y, ret >>

WriteHIST ==
  /\ pc = "hist"
  /\ Apply(maybeWriteHIST(St, metadata))
  /\ pc' = After(pc)
  /\ UNCHANGED << rowVars, enc, pool, gets, puts, arg, metadata, ti, y, ret >>

(***************************************************************************)
(* The image data: the captured IDAT of a deferred source, else            *)
(* writeIDATs, whose writeImage hands the rows to the compressor.          *)
(***************************************************************************)
\* bufio.NewWriterSize(e, 1<<15) or e.bw.Reset(e); zlib.NewWriterLevel or e.zw.Reset
resetStreams(s) ==
  [s EXCEPT !.bw = [buf |-> << >>, err |-> NoErr], !.zw = [n |-> 0, err |-> NoErr]]

WriteIDAT ==
  /\ pc = "idat"
  /\ IF arg.m.deferred
     THEN /\ Apply(IF arg.m.idat # None
                   THEN writeChunk(St, StripCRC(arg.m.idat[1]), "IDAT")
                   ELSE St)
          /\ pc' = After(pc)
     ELSE IF e.err # NoErr
     THEN /\ pc' = After(pc)
          /\ UNCHANGED << e, w, hooks, panic >>
     ELSE /\ e' = resetStreams(e)
          /\ pc' = "row"
          /\ UNCHANGED << w, hooks, panic >>
  /\ y' = 0
  /\ UNCHANGED << rowVars, enc, pool, gets, puts, arg, metadata, ti, ret >>

\* b.Dy() of an image that passed the size check and has few rows
Rows(m) == m.Dy.hi * Limb + m.Dy.lo

\* the modes whose rows are read with m.At(x, y); the palette modes read ColorIndexAt
UsesAt(cb) == cb \notin { "cbP1", "cbP2", "cbP4", "cbP8" }

\* one turn of the row loop of writeImage: the pixels are converted (a nil colour from
\* m.At panics, and the unwinding runs the deferred e.zw.Close() and BufferPool.Put), then
\* e.zw.Write(cr[f]); an error ends writeIDATs
WriteRow ==
  /\ pc = "row"
  /\ LET st == zwWrite(St, arg.m.zemit[y + 1])
     IN  IF arg.m.AtNil /\ UsesAt(e.cb)
         THEN /\ Apply([zwClose(St, arg.m.zemit[Len(arg.m.zemit)]) EXCEPT !.panic = TRUE])
              /\ pc' = "ret"
              /\ y' = y
         ELSE IF st.e.zw.err # NoErr
         THEN /\ Apply([st EXCEPT !.e.err = st.e.zw.err])
              /\ pc' = "iend"
              /\ y' = y
         ELSE /\ Apply(st)
              /\ y' = y + 1
              /\ pc' = IF y + 1 = Rows(arg.m) THEN "zclose" ELSE "row"
  /\ UNCHANGED << rowVars, enc, pool, gets, puts, arg, metadata, ti, ret >>

\* CloseStream with the compressor closed only after the buffer's final flush
CloseStream_afterFlush ==
  /\ pc = "zclose"
  /\ LET st == bwFlush(St)
     IN  Apply(zwClose([st EXCEPT !.e.err = st.e.bw.err], arg.m.zemit[Rows(arg.m) + 1]))
  /\ pc' = "iend"
  /\ UNCHANGED << rowVars, enc, pool, gets, puts, arg, metadata, ti, y, ret >>

\* writeImage returns nil: the deferred e.zw.Close() runs, its error dropped, and
\* writeIDATs assigns the nil to e.err
CloseStream ==
  /\ pc = "zclose"
  /\ LET st == zwClose(St, arg.m.zemit[Rows(arg.m) + 1])
     IN  Apply([st EXCEPT !.e.err = NoErr])
  /\ pc' = "flush"
  /\ UNCHANGED << rowVars, enc, pool, gets, puts, arg, metadata, ti, y, ret >>

\* e.err = e.bw.Flush()
FlushIDAT ==
  /\ pc = "flush"
  /\ LET st == bwFlush(St)
     IN  Apply([st EXCEPT !.e.err = st.e.bw.err])
  /\ pc' = "iend"
  /\ UNCHANGED << rowVars, enc, pool, gets, puts, arg, metadata, ti, y, ret >>

WriteIEND ==
  /\ pc = "iend"
  /\ Apply(writeChunk(St, << >>, "IEND"))
  /\ pc' = After(pc)
  /\ UNCHANGED << rowVars, enc, pool, gets, puts, arg, metadata, ti, y, ret >>

\* Return with the session put back only when the call succeeded
Return_noPutOnError ==
  /\ pc = "ret"
  /\ ret' = IF panic THEN "panic" ELSE e.err
  /\ IF enc.BufferPool /\ e.err = NoErr /\ ~panic
     THEN pool' = Append(pool, e) /\ puts' = puts + 1
     ELSE UNCHANGED << pool, puts >>
  /\ pc' = "done"
  /\ UNCHANGED << rowVars, enc, gets, arg, metadata, e, w, hooks, panic, ti, y >>

\* return e.err (or the panic goes on), and the deferred BufferPool.Put runs
Return ==
  /\ pc = "ret"
  /\ ret' = IF panic THEN "panic" ELSE e.err
  /\ IF enc.BufferPool
     THEN pool' = Append(pool, e) /\ puts' = puts + 1
     ELSE UNCHANGED << pool, puts >>
  /\ pc' = "done"
  /\ UNCHANGED << rowVars, enc, gets, arg, metadata, e, w, hooks, panic, ti, y >>

\* the call is over: its arguments, locals and sink are gone
Forget ==
  /\ pc = "done"
  /\ pc' = "idle"
  /\ arg' = [opts |-> << >>, m |-> BaseImage]
  /\ metadata' = None
  /\ e' = ZeroEncoder
  /\ w' = NewSink(0)
  /\ hooks' = 0
  /\ panic' = FALSE
  /\ ti' = 0
  /\ y' = 0
  /\ ret' = NoErr
  /\ UNCHANGED << rowVars, enc, pool, gets, puts >>

Next ==
  \/ StartCall
  \/ ParseOpts
  \/ CheckSize
  \/ Acquire
  \/ SelectMode
  \/ WriteSignature
  \/ WriteIHDR
  \/ WriteGAMA
  \/ WriteCHRM
  \/ WriteSRGB
  \/ WriteTIME
  \/ WriteICCP
  \/ WritePHYS
  \/ WriteXMP
  \/ WriteText
  \/ WritePLTE
  \/ WriteHIST
  \/ WriteIDAT
  \/ WriteRow
  \/ CloseStream
  \/ FlushIDAT
  \/ WriteIEND
  \/ Return
  \/ Forget

Spec == Init /\ [][Next]_vars

(***************************************************************************)
(* The row filter.  A row buffer is a sequence of bytes whose first byte   *)
(* is the filter type and whose other bytes are the row's data: the        *)
(* source's cdat[i] is here buf[i + 2].                                    *)
(***************************************************************************)
\* the filter types, which index cr
ftNone == 0
ftSub == 1
ftUp == 2
ftAverage == 3
ftPaeth == 4

\* abs8 taking the byte as unsigned
abs8_unsigned(d) == d

\* The absolute value of a byte interpreted as a signed int8.
abs8(d) == IF d < 128 THEN d ELSE 256 - d

\* the difference of two bytes as a uint8
Sub8(a, b) == (a - b + 256) % 256

Abs(x) == IF x < 0 THEN 0 - x ELSE x

\* the Paeth predictor: whichever of a, b, c is closest to a + b - c, a before b before c
paeth(a, b, c) ==
  LET pa == Abs(b - c)
      pb == Abs(a - c)
      pc0 == Abs((b - c) + (a - c))
  IN  IF pa <= pb /\ pa <= pc0 THEN a ELSE IF pb <= pc0 THEN b ELSE c

\* sum < best with the test turned into sum <= best
better_orEqual(sum, best) == sum <= best

\* the test that lets a candidate replace the incumbent
better(sum, best) == sum < best

RECURSIVE candLoop(_, _, _, _, _, _)
\* the loops of one candidate from data index i on: val[i + 1] is stored in the candidate's
\* buffer and its abs8 added to sum, and from index first on the loop breaks as soon as the
\* sum has reached best; [sum, buf]
candLoop(val, buf, i, sum, first, best) ==
  IF i >= Len(val) THEN [sum |-> sum, buf |-> buf]
  ELSE LET s == sum + abs8(val[i + 1])
           b == [buf EXCEPT ![i + 2] = val[i + 1]]
       IN  IF i >= first /\ s >= best THEN [sum |-> s, buf |-> b]
           ELSE candLoop(val, b, i + 1, s, first, best)

\* filter(&cr, pr, bpp): cr the five buffers of the current row (cr[0] the unfiltered one),
\* pr the previous row; [f, cr]: the filter chosen and the buffers as the call leaves them
filter(cr, pr, bpp) ==
  LET n == Len(cr[0]) - 1
      c0 == [i \in 1..n |-> cr[0][i + 1]]
      p == [i \in 1..n |-> pr[i + 1]]
      \* the up filter: no break
      upv == [i \in 1..n |-> Sub8(c0[i], p[i])]
      up == candLoop(upv, cr[2], 0, 0, n, 0)
      best1 == up.sum
      \* the Paeth filter
      pav == [i \in 1..n |-> IF i <= bpp THEN Sub8(c0[i], p[i])
                             ELSE Sub8(c0[i], paeth(c0[i - bpp], p[i], p[i - bpp]))]
      pa == candLoop(pav, cr[4], 0, 0, bpp, best1)
      took2 == better(pa.sum, best1)
      best2 == IF took2 THEN pa.sum ELSE best1
      f2 == IF took2 THEN ftPaeth ELSE ftUp
      \* the none filter: nothing is stored, and the sum is tested from the first byte on
      no == candLoop(c0, cr[0], 0, 0, 0, best2)
      took3 == better(no.sum, best2)
      best3 == IF took3 THEN no.sum ELSE best2
      f3 == IF took3 THEN ftNone ELSE f2
      \* the sub filter
      suv == [i \in 1..n |-> IF i <= bpp THEN c0[i] ELSE Sub8(c0[i], c0[i - bpp])]
      su == candLoop(suv, cr[1], 0, 0, bpp, best3)
      took4 == better(su.sum, best3)
      best4 == IF took4 THEN su.sum ELSE best3
      f4 == IF took4 THEN ftSub ELSE f3
      \* the average filter
      avv == [i \in 1..n |-> IF i <= bpp THEN Sub8(c0[i], p[i] \div 2)
                             ELSE Sub8(c0[i], (c0[i - bpp] + p[i]) \div 2)]
      av == candLoop(avv, cr[3], 0, 0, bpp, best4)
      f5 == IF better(av.sum, best4) THEN ftAverage ELSE f4
  IN  [f |-> f5,
       cr |-> [k \in 0..4 |-> CASE k = ftNone -> cr[0]
                                [] k = ftSub -> su.buf
                                [] k = ftUp -> up.buf
                                [] k = ftAverage -> av.buf
                                [] k = ftPaeth -> pa.buf]]

(***************************************************************************)
(* FilterSpec: filter called on every current row, previous row and bpp of *)
(* bounded size.  wi is here the frame of the call: its arguments, and on  *)
(* return the arguments it was called with and its result.                 *)
(***************************************************************************)
\* the bytes the rows are drawn from
FilterBytes == { 0, 1, 128, 255 }

\* the rows of n bytes, the filter type t in front
TaggedRows(t, n, B) == { << t >> \o r : r \in [1..n -> B] }
Zeros(n) == [i \in 1..n |-> 0]

FilterInit ==
  /\ enc = [BufferPool |-> FALSE, CompressionLevel |-> "DefaultCompression"]
  /\ pool = << >>
  /\ gets = 0
  /\ puts = 0
  /\ pc = "idle"
  /\ arg = [opts |-> << >>, m |-> BaseImage]
  /\ metadata = None
  /\ e = ZeroEncoder
  /\ w = NewSink(0)
  /\ hooks = 0
  /\ panic = FALSE
  /\ ti = 0
  /\ y = 0
  /\ ret = NoErr
  /\ scratch = NilScratch
  /\ images = 0
  /\ \E n \in 1..MaxLen :
       \E c \in TaggedRows(ftNone, n, FilterBytes), p \in TaggedRows(0, n, FilterBytes),
          bpp \in 1..n :
         wi = [pc |-> "filter",
               cr |-> [k \in 0..4 |-> IF k = ftNone THEN c ELSE << k >> \o Zeros(n)],
               pr |-> p, bpp |-> bpp]

\* the call of filter and its return
FilterCall ==
  /\ wi.pc = "filter"
  /\ LET r == filter(wi.cr, wi.pr, wi.bpp)
     IN  wi' = [pc |-> "return", cr |-> r.cr, pr |-> wi.pr, bpp |-> wi.bpp, f |-> r.f]
  /\ UNCHANGED << enc, pool, gets, puts, pc, arg, metadata, e, w, hooks, panic, ti, y, ret,
                  scratch, images >>

FilterSpec == FilterInit /\ [][FilterCall]_vars

(***************************************************************************)
(* RowSpec: the calls of writeImage on one session, as a buffer pool makes *)
(* them follow one another, with the row buffers byte by byte.  An image   *)
(* is here [cb, Dx, Dy, level, pix, failAt]: its mode and size, the        *)
(* compression level, the pattern of its pixels, and the row at which      *)
(* e.zw.Write fails (0: none).                                             *)
(***************************************************************************)
bitsPerPixel(cb) ==
  CASE cb = "cbG8" -> 8
    [] cb = "cbTC8" -> 24
    [] cb = "cbP8" -> 8
    [] cb = "cbP4" -> 4
    [] cb = "cbP2" -> 2
    [] cb = "cbP1" -> 1
    [] cb = "cbTCA8" -> 32
    [] cb = "cbTC16" -> 48
    [] cb = "cbTCA16" -> 64
    [] cb = "cbG16" -> 16

\* sz: the length of every row buffer, the byte of the filter type included
rowSize(m) == 1 + (bitsPerPixel(m.cb) * m.Dx + 7) \div 8

\* whether the rows of the image go through filter
filtered(m) ==
  m.level # "NoCompression" /\ m.cb \notin { "cbP8", "cbP4", "cbP2", "cbP1" }

\* e.cr[i] made ready for rows of sz bytes: a new array if the capacity is too small, else
\* the old one cut to sz; its first byte set to i
setupCr(s, sz, i) ==
  IF Len(s.mem) < sz THEN [mem |-> << i >> \o Zeros(sz - 1), len |-> sz]
  ELSE [mem |-> [s.mem EXCEPT ![1] = i], len |-> sz]

\* setupPr without zeroMemory
setupPr_noZero(s, sz) ==
  IF Len(s.mem) < sz THEN [mem |-> Zeros(sz), len |-> sz]
  ELSE [mem |-> s.mem, len |-> sz]

\* e.pr made ready: a new array, or the old one cut to sz and zeroed over its length
setupPr(s, sz) ==
  IF Len(s.mem) < sz THEN [mem |-> Zeros(sz), len |-> sz]
  ELSE [mem |-> Zeros(sz) \o SubSeq(s.mem, sz + 1, Len(s.mem)), len |-> sz]

\* the images written: filtered with bpp 1 and 2, paletted, not compressed, and one on
\* whose first row e.zw.Write fails; each in every size
RowImages ==
  { [cb |-> c[1], Dx |-> dx, Dy |-> dy, level |-> c[2], pix |-> c[3], failAt |-> c[4]] :
      c \in { << "cbG8", "DefaultCompression", "ramp", 0 >>,
              << "cbG8", "DefaultCompression", "wave", 0 >>,
              << "cbG8", "DefaultCompression", "ramp", 1 >>,
              << "cbG16", "DefaultCompression", "wave", 0 >>,
              << "cbP8", "DefaultCompression", "ramp", 0 >>,
              << "cbG8", "NoCompression", "wave", 0 >> },
      dx \in 1..MaxDx, dy \in 1..MaxDy }

\* the bytes of row y (from 0) of the image, as the conversion of its pixels yields them:
\* none of them 0, so that a byte left from an earlier row is never taken for a zeroed one
RawRow(m, yy) ==
  [i \in 1..(rowSize(m) - 1) |->
     IF m.pix = "ramp" THEN 10 * (yy + 1) + i
     ELSE IF (i + yy) % 2 = 0 THEN 255 - yy ELSE 1 + m.Dx]

\* the locals cr and pr of writeImage are the session's slices, cr[0] and pr exchanged
\* after every row: the buffer each of them names
Cr0Name == IF wi.swapped THEN "pr" ELSE "cr0"
PrName == IF wi.swapped THEN "cr0" ELSE "pr"
CrName(k) == IF k = 0 THEN Cr0Name ELSE << "cr1", "cr2", "cr3", "cr4" >>[k]

\* the bytes a slice shows, and a backing array with the bytes of the slice replaced
View(b) == SubSeq(scratch[b].mem, 1, scratch[b].len)
Store(s, view) == [s EXCEPT !.mem = view \o SubSeq(s.mem, Len(view) + 1, Len(s.mem))]

RowInit ==
  /\ enc = [BufferPool |-> TRUE, CompressionLevel |-> "DefaultCompression"]
  /\ pool = << >>
  /\ gets = 0
  /\ puts = 0
  /\ pc = "idle"
  /\ arg = [opts |-> << >>, m |-> BaseImage]
  /\ metadata = None
  /\ e = ZeroEncoder
  /\ w = NewSink(0)
  /\ hooks = 0
  /\ panic = FALSE
  /\ ti = 0
  /\ y = 0
  /\ ret = NoErr
  /\ scratch = NilScratch
  /\ wi = NoFrame
  /\ images = 0

\* writeImage up to its row loop: the buffers are sized and pr is zeroed
BeginImage ==
  /\ wi.pc = "idle"
  /\ images < MaxImages
  /\ \E m \in RowImages :
       /\ scratch' = [b \in BufNames |->
                        CASE b = "pr" -> setupPr(scratch[b], rowSize(m))
                          [] b = "cr0" -> setupCr(scratch[b], rowSize(m), 0)
                          [] b = "cr1" -> setupCr(scratch[b], rowSize(m), 1)
                          [] b = "cr2" -> setupCr(scratch[b], rowSize(m), 2)
                          [] b = "cr3" -> setupCr(scratch[b], rowSize(m), 3)
                          [] b = "cr4" -> setupCr(scratch[b], rowSize(m), 4)]
       /\ wi' = [NoFrame EXCEPT !.pc = "convert", !.m = m]
  /\ images' = images + 1
  /\ UNCHANGED << enc, pool, gets, puts, pc, arg, metadata, e, w, hooks, panic, ti, y, ret >>

\* Convert from colors to bytes: the row's bytes are written to cr[0][1:]
ConvertRow ==
  /\ wi.pc = "convert"
  /\ LET raw == RawRow(wi.m, wi.y)
     IN  /\ scratch' = [scratch EXCEPT
                          ![Cr0Name] = Store(@, << View(Cr0Name)[1] >> \o raw)]
         /\ wi' = [wi EXCEPT !.pc = "filter", !.raw = raw, !.prev = wi.raw]
  /\ UNCHANGED << enc, pool, gets, puts, pc, arg, metadata, e, w, hooks, panic, ti, y, ret,
                  images >>

\* Apply the filter: f = filter(&cr, pr, bpp), or ftNone for the images not filtered
FilterRow ==
  /\ wi.pc = "filter"
  /\ IF filtered(wi.m)
     THEN LET r == filter([k \in 0..4 |-> View(CrName(k))], View(PrName),
                          bitsPerPixel(wi.m.cb) \div 8)
          IN  /\ scratch' = [b \in BufNames |->
                               IF \E k \in 1..4 : CrName(k) = b
                               THEN Store(scratch[b],
                                          r.cr[CHOOSE k \in 1..4 : CrName(k) = b])
                               ELSE scratch[b]]
              /\ wi' = [wi EXCEPT !.pc = "feed", !.f = r.f]
     ELSE /\ scratch' = scratch
          /\ wi' = [wi EXCEPT !.pc = "feed", !.f = ftNone]
  /\ UNCHANGED << enc, pool, gets, puts, pc, arg, metadata, e, w, hooks, panic, ti, y, ret,
                  images >>

\* e.zw.Write(cr[f]): on an error writeImage returns it; else pr and cr[0] are exchanged
\* and the loop goes on, or writeImage returns nil after the last row
FeedRow ==
  /\ wi.pc = "feed"
  /\ wi' = IF wi.m.failAt = wi.y + 1 \/ wi.y + 1 = wi.m.Dy THEN NoFrame
           ELSE [wi EXCEPT !.pc = "convert", !.y = wi.y + 1, !.swapped = ~wi.swapped]
  /\ UNCHANGED << enc, pool, gets, puts, pc, arg, metadata, e, w, hooks, panic, ti, y, ret,
                  scratch, images >>

RowNext ==
  \/ BeginImage
  \/ ConvertRow
  \/ FilterRow
  \/ FeedRow

RowSpec == RowInit /\ [][RowNext]_vars

(***************************************************************************)
(* Reading the sink: the chunks written so far.                            *)
(***************************************************************************)
IsHdr(it) == it.k = "hdr"

\* the tags of the chunks begun so far, in the order of their headers
Tags(out) == LET H == SelectSeq(out, IsHdr) IN [i \in 1..Len(H) |-> H[i].tag]

\* the sink holds the signature and then whole chunks: header with the payload's length,
\* payload, CRC over tag and payload
WellFramed(out) ==
  /\ Len(out) >= 1
  /\ out[1] = Item("sig", "", pngHeader)
  /\ (Len(out) - 1) % 3 = 0
  /\ \A j \in 0..((Len(out) - 1) \div 3 - 1) :
       LET h == out[2 + 3 * j]  b == out[3 + 3 * j]  c == out[4 + 3 * j]
       IN  /\ h.k = "hdr" /\ b.k = "body" /\ c.k = "crc"
           /\ b.tag = h.tag /\ c.tag = h.tag
           /\ Len(h.b) = 4
           /\ h.b[1] * 16777216 + h.b[2] * 65536 + h.b[3] * 256 + h.b[4] = Len(b.b)
           /\ c.b = b.b

\* the chunks of a well-framed sink: [tag, body]
Chunks(out) ==
  [j \in 1..((Len(out) - 1) \div 3) |-> [tag |-> out[3 * j].tag, body |-> out[3 * j].b]]

StartsWith(b, prefix) == Len(b) >= Len(prefix) /\ SubSeq(b, 1, Len(prefix)) = prefix

IsXmpChunk(c) == c.tag = "iTXt" /\ StartsWith(c.body, xmpTextKey \o << 0 >>)
IsTextChunk(c) == c.tag \in { "tEXt", "zTXt", "iTXt" } /\ ~IsXmpChunk(c)

\* the place of a chunk in the byte stream layout
Rank(c) ==
  CASE c.tag = "IHDR" -> 1
    [] c.tag = "gAMA" -> 2
    [] c.tag = "cHRM" -> 3
    [] c.tag = "sRGB" -> 4
    [] c.tag = "tIME" -> 5
    [] c.tag = "iCCP" -> 6
    [] c.tag = "pHYs" -> 7
    [] IsXmpChunk(c) -> 8
    [] IsTextChunk(c) -> 9
    [] c.tag = "PLTE" -> 10
    [] c.tag = "tRNS" -> 11
    [] c.tag = "hIST" -> 12
    [] c.tag = "IDAT" -> 13
    [] c.tag = "IEND" -> 14
    [] OTHER -> 0

MdPresent(f) == metadata # None /\ metadata[1][f] # None
MdText == IF metadata = None THEN << >> ELSE metadata[1].Text

\* the input holds what chunk c carries
ChunkPresent(c) ==
  CASE c.tag = "gAMA" -> MdPresent("Gamma")
    [] c.tag = "cHRM" -> MdPresent("Chroma")
    [] c.tag = "sRGB" -> MdPresent("SRGBIntent")
    [] c.tag = "tIME" -> MdPresent("LastModified")
    [] c.tag = "iCCP" -> MdPresent("icc") \/ MdPresent("rawIcc")
    [] c.tag = "pHYs" -> MdPresent("Dimension")
    [] IsXmpChunk(c) -> MdPresent("xmp") \/ MdPresent("rawXmp")
    [] c.tag = "PLTE" -> IF arg.m.deferred THEN arg.m.plte # None
                         ELSE arg.m.PalettedImage /\ arg.m.ColorModel = "Palette"
    [] c.tag = "tRNS" -> IF arg.m.deferred THEN arg.m.trns # None
                         ELSE arg.m.PalettedImage /\ arg.m.ColorModel = "Palette"
    [] c.tag = "hIST" -> MdPresent("Histogram")
    [] OTHER -> TRUE

TextTag(t) ==
  CASE t.EntryType = "EtText" -> "tEXt"
    [] t.EntryType = "EtZtext" -> "zTXt"
    [] t.EntryType = "EtItext" -> "iTXt"

Succeeded == pc = "done" /\ ret = NoErr

(***************************************************************************)
(* C1.  Every successful call leaves the sink holding, in this order and   *)
(* nothing else: the signature, IHDR, then gAMA, cHRM, sRGB, tIME, iCCP,   *)
(* pHYs and the XMP iTXt (each at most once and only if the input holds    *)
(* it), the text entries in the order of their list, PLTE, tRNS, hIST, the *)
(* IDAT chunks, and IEND as the last chunk.  At every moment of a call the *)
(* chunks begun so far are in that order.                                  *)
(***************************************************************************)
C1_ChunkOrder ==
  /\ LET T == SelectSeq(w.out, IsHdr)
         R == [i \in 1..Len(T) |-> Rank([tag |-> T[i].tag, body |-> << >>])]
     IN  \A i \in 1..(Len(T) - 1) : R[i] <= R[i + 1]
  /\ Succeeded =>
       /\ WellFramed(w.out)
       /\ LET c == Chunks(w.out)
              tc == SelectSeq(c, IsTextChunk)
          IN  /\ Len(c) >= 2
              /\ c[1].tag = "IHDR"
              /\ c[Len(c)].tag = "IEND"
              /\ \A i \in 1..Len(c) : Rank(c[i]) # 0 /\ ChunkPresent(c[i])
              /\ \A i \in 1..(Len(c) - 1) :
                   /\ Rank(c[i]) <= Rank(c[i + 1])
                   /\ Rank(c[i]) = Rank(c[i + 1]) => Rank(c[i]) \in { 9, 13 }
              /\ Len(tc) = Len(MdText)
              /\ \A i \in 1..Len(tc) :
                   /\ tc[i].tag = TextTag(MdText[i])
                   /\ StartsWith(tc[i].body, MdText[i].Key \o << 0 >>)

\* a deferred source with every metadata field and two text entries was written out whole
C1_Witness ==
  /\ Succeeded
  /\ arg.m.deferred
  /\ Tags(w.out) = << "IHDR", "gAMA", "cHRM", "sRGB", "tIME", "iCCP", "pHYs", "iTXt", "zTXt",
                      "tEXt", "PLTE", "tRNS", "hIST", "IDAT", "IEND" >>

\* the statements after the write of the signature, which assigns e.err
AfterSignature ==
  { "ihdr", "gama", "chrm", "srgb", "time", "iccp", "phys", "xmp", "text", "plte", "hist",
    "idat", "row", "zclose", "flush", "iend", "ret" }

\* the call has recorded an error: in e.err, or (while writeIDATs is about to flush, having
\* assigned writeImage's nil to e.err) in the IDAT buffer
ErrorRecorded == e.err # NoErr \/ (pc = "flush" /\ e.bw.err # NoErr)

(***************************************************************************)
(* C2.  Once the session's error is set in a call, no statement of the     *)
(* call makes another Write call on the sink or calls an ICC or XMP hook;  *)
(* and the Write call that failed is the last Write call of the call.      *)
(***************************************************************************)
C2_NoWriteAfterError ==
  /\ []((pc \in AfterSignature \cup { "done" } /\ w.failAt # 0 /\ w.n >= w.failAt)
          => w.n = w.failAt)
  /\ [][(pc \in AfterSignature /\ ErrorRecorded) => (w' = w /\ hooks' = hooks)]_vars

\* the sink failed on the header of the second chunk, with metadata, a palette and image data
\* still to write, and the call is over
C2_Witness ==
  /\ pc = "done"
  /\ ret = SinkErr
  /\ w.failAt = 5
  /\ w.n = 5
  /\ Tags(w.out) = << "IHDR" >>
  /\ MdPresent("Gamma") /\ MdPresent("icc") /\ MdPresent("Histogram")
  /\ paletteOf(arg.m) # None

(***************************************************************************)
(* C3.  Once the session's error is set in a call, no later statement of   *)
(* the call replaces it with another error or clears it, and the call      *)
(* returns it.                                                             *)
(***************************************************************************)
C3_FirstErrorKept ==
  [][(pc \in AfterSignature /\ e.err # NoErr)
       => (e'.err = e.err /\ (pc' = "done" => ret' = e.err))]_vars

\* the same, but for the statement that writes the palette
C3_FirstErrorKeptButByPalette ==
  [][(pc \in AfterSignature \ { "plte" } /\ e.err # NoErr)
       => (e'.err = e.err /\ (pc' = "done" => ret' = e.err))]_vars

\* what the options and the image are, read off the arguments
ManyBundles == Cardinality({ i \in 1..Len(arg.opts) : arg.opts[i].kind = "Metadata" }) > 1
UnknownOption == \E i \in 1..Len(arg.opts) : arg.opts[i].kind # "Metadata"
InvalidMetadata ==
  \E i \in 1..Len(arg.opts) : arg.opts[i].kind = "Metadata" /\ arg.opts[i].md.validateErr
BadOptions == ManyBundles \/ UnknownOption \/ InvalidMetadata
BadSize ==
  /\ ~arg.m.deferred
  /\ \E d \in { arg.m.Dx, arg.m.Dy } : d.hi < 0 \/ (d.hi = 0 /\ d.lo = 0) \/ d.hi >= Limb

(***************************************************************************)
(* C4.  A call with more than one metadata bundle, an option of another    *)
(* type, a bundle that fails validation, or a source that is not deferred  *)
(* and has a width or height <= 0 or >= 2^32 ends with an error (a         *)
(* FormatError when only the size is bad) without one Write call on the    *)
(* sink; no call gets a session from the pool, or writes, before it has    *)
(* passed these checks; and every other call, such as the one of a 1x1     *)
(* image without options, goes on to write.                                *)
(***************************************************************************)
C4_ValidationFirst ==
  /\ []((pc \notin { "idle", "opts", "size" } /\ (BadOptions \/ BadSize))
          => /\ pc = "done"
             /\ ret # NoErr
             /\ w.n = 0 /\ w.out = << >>
             /\ ~BadOptions => ret = FormatErr)
  /\ []((pc = "done" /\ ~BadOptions /\ ~BadSize) => w.n >= 1)
  /\ [][(pc \in { "opts", "size" })
          => (gets' = gets /\ puts' = puts /\ pool' = pool /\ w' = w /\ w.n = 0)]_vars

\* an Encoder with a pool, whose earlier call took a session, has refused an image 2^32 high
C4_Witness ==
  /\ pc = "done"
  /\ enc.BufferPool
  /\ gets = 1 /\ puts = 1
  /\ arg.m.Dy = Two32
  /\ arg.opts = << >>
  /\ ret = FormatErr
  /\ w.n = 0

\* a source that is not deferred and exposes a palette: a PalettedImage whose colour model
\* is a color.Palette; and the length of that palette, 0 for the nil palette
ExposesPalette == ~arg.m.deferred /\ arg.m.PalettedImage /\ arg.m.ColorModel = "Palette"
PaletteLength == IF arg.m.Palette = None THEN 0 ELSE Len(arg.m.Palette[1])

(***************************************************************************)
(* C5.  A call that has passed the option and size checks on a source      *)
(* exposing a palette returns a FormatError when the palette's length is 0 *)
(* (the nil palette included) or more than 256, and returns no FormatError *)
(* when the length is from 1 to 256.                                       *)
(***************************************************************************)
C5_PaletteBounds ==
  (pc = "done" /\ ExposesPalette /\ ~BadOptions /\ ~BadSize)
    => (ret = FormatErr <=> PaletteLength \notin 1..256)

\* the same for the palettes that are not nil
C5_PaletteBoundsButNil ==
  (pc = "done" /\ ExposesPalette /\ ~BadOptions /\ ~BadSize /\ arg.m.Palette # None)
    => (ret = FormatErr <=> PaletteLength \notin 1..256)

\* the nil palette went through without an error, encoded as a 16-bit truecolour image
C5_NilPaletteEncoded ==
  /\ Succeeded
  /\ ExposesPalette
  /\ arg.m.Palette = None
  /\ e.cb \in { "cbTC16", "cbTCA16" }
  /\ Tags(w.out) = << "IHDR", "IDAT", "IEND" >>

\* the call has chosen the mode of a source that is not deferred and exposes no palette
ModeChosen ==
  /\ ~arg.m.deferred
  /\ arg.m.ColorModel # "Palette"
  /\ \/ pc \in { "sig" } \cup AfterSignature
     \/ pc = "done" /\ ~BadOptions /\ ~BadSize

\* what the pixels are, and what the opacity check reports: the source's own Opaque() when
\* it has one, else whether every pixel is opaque
AllPixelsOpaque == \A i \in 1..Len(arg.m.Alpha) : arg.m.Alpha[i] = 65535
OpacityReport == IF arg.m.Opaquer # None THEN arg.m.Opaquer[1] ELSE AllPixelsOpaque

\* C6 as stated: an image of the 8-bit grayscale model is encoded in grayscale-8 when its
\* pixels are all opaque and in truecolor+alpha-8 when one is not, and a mode without an
\* alpha channel is selected only when the opacity check reports the image opaque
C6_AlphaModeUnlessOpaque ==
  ModeChosen =>
    /\ (arg.m.ColorModel = "GrayModel" /\ AllPixelsOpaque) => e.cb = "cbG8"
    /\ (arg.m.ColorModel = "GrayModel" /\ ~AllPixelsOpaque) => e.cb = "cbTCA8"
    /\ e.cb \in { "cbG8", "cbG16", "cbTC8", "cbTC16" } => OpacityReport

(***************************************************************************)
(* C6.  For a source that is not deferred and exposes no palette: the      *)
(* 8-bit grayscale model is encoded in grayscale-8 and the 16-bit one in   *)
(* grayscale-16 whatever the pixels' alpha, no opacity check being made;   *)
(* for every other colour model the truecolor mode without alpha (8-bit    *)
(* for the RGBA, NRGBA and Alpha models, 16-bit for the others) is         *)
(* selected exactly when the opacity check reports the image opaque, and   *)
(* the truecolor+alpha mode of the same depth when it does not.            *)
(***************************************************************************)
C6_ModeSelection ==
  ModeChosen =>
    e.cb = CASE arg.m.ColorModel = "GrayModel" -> "cbG8"
             [] arg.m.ColorModel = "Gray16Model" -> "cbG16"
             [] arg.m.ColorModel \in { "RGBAModel", "NRGBAModel", "AlphaModel" } ->
                  IF OpacityReport THEN "cbTC8" ELSE "cbTCA8"
             [] OTHER -> IF OpacityReport THEN "cbTC16" ELSE "cbTCA16"

\* an 8-bit grayscale image whose one pixel is transparent was encoded in grayscale-8
C6_Witness ==
  /\ Succeeded
  /\ ModeChosen
  /\ arg.m.ColorModel = "GrayModel"
  /\ arg.m.Opaquer = None
  /\ arg.m.Alpha = << 0 >>
  /\ e.cb = "cbG8"
  /\ Tags(w.out) = << "IHDR", "IDAT", "IEND" >>

\* an NRGBA image without Opaque() whose second pixel is not opaque was encoded with alpha
C6_ScanFindsSecondPixel ==
  /\ Succeeded
  /\ ModeChosen
  /\ arg.m.ColorModel = "NRGBAModel"
  /\ arg.m.Opaquer = None
  /\ arg.m.Alpha = << 65535, 32768 >>
  /\ e.cb = "cbTCA8"

\* the iCCP chunks in the sink
IsICCP(c) == c.tag = "iCCP"
ICCPChunks == SelectSeq(Chunks(w.out), IsICCP)

(***************************************************************************)
(* C7.  A successful call whose metadata bundle carries a non-empty raw    *)
(* ICC blob has written exactly one iCCP chunk, after tIME and before      *)
(* pHYs, and the chunk's payload is the raw blob byte for byte, whether or *)
(* not an ICC profile object is set as well.                               *)
(***************************************************************************)
C7_RawICCVerbatim ==
  (Succeeded /\ metadata # None /\ Len(metadata[1].rawIcc) > 0)
    => /\ Len(ICCPChunks) = 1
       /\ ICCPChunks[1].body = metadata[1].rawIcc
       /\ LET c == Chunks(w.out)
          IN  \A i, j \in 1..Len(c) :
                (i < j /\ (IsICCP(c[i]) \/ IsICCP(c[j]))) => Rank(c[i]) < Rank(c[j])

\* a successful call whose bundle carried the raw blob alone wrote no iCCP chunk
C7_RawICCDropped ==
  /\ Succeeded
  /\ metadata # None
  /\ metadata[1].rawIcc = RawIccV
  /\ metadata[1].icc = None
  /\ MdPresent("LastModified") /\ MdPresent("Dimension")
  /\ ICCPChunks = << >>

\* with the raw blob and a profile object both set, the object was encoded and compressed
C7_ObjectEncodedInstead ==
  /\ Succeeded
  /\ metadata # None
  /\ metadata[1].rawIcc = RawIccV
  /\ metadata[1].icc # None
  /\ Len(ICCPChunks) = 1
  /\ ICCPChunks[1].body # RawIccV
  /\ hooks >= 1

\* the chunks with tag t in the sink, and the captured chunk a deferred source holds for t
TagChunks(t) == SelectSeq(Chunks(w.out), LAMBDA c : c.tag = t)
Captured(t) ==
  CASE t = "IHDR" -> arg.m.ihdr
    [] t = "PLTE" -> arg.m.plte
    [] t = "tRNS" -> arg.m.trns
    [] t = "IDAT" -> arg.m.idat

\* the chunk tag of each metadata field with a writer of its own
FieldTag ==
  [Gamma |-> "gAMA", Chroma |-> "cHRM", SRGBIntent |-> "sRGB", LastModified |-> "tIME",
   Dimension |-> "pHYs", Histogram |-> "hIST"]

(***************************************************************************)
(* C8.  A successful call on a deferred source has written, for each of    *)
(* IHDR, PLTE, tRNS and IDAT, exactly one chunk when the source holds the  *)
(* captured chunk and none when it does not; the chunk's payload is the    *)
(* captured bytes without their last 4, its length field is the payload's  *)
(* length and its CRC is computed over tag and payload.  Each metadata     *)
(* field present has its chunk, hIST after PLTE and tRNS and before IDAT.  *)
(* No step of a call on a deferred source selects a mode, touches the IDAT *)
(* buffer or the compressor, or enters the row loop, and the call never    *)
(* returns a FormatError, whatever the source's bounds.                    *)
(***************************************************************************)
C8_DeferredTransplant ==
  /\ []((Succeeded /\ arg.m.deferred) =>
          /\ WellFramed(w.out)
          /\ \A t \in { "IHDR", "PLTE", "tRNS", "IDAT" } :
               IF Captured(t) = None THEN TagChunks(t) = << >>
               ELSE LET blob == Captured(t)[1]
                    IN  /\ Len(TagChunks(t)) = 1
                        /\ Len(TagChunks(t)[1].body) = Len(blob) - 4
                        /\ TagChunks(t)[1].body \o SubSeq(blob, Len(blob) - 3, Len(blob)) = blob
          /\ \A f \in DOMAIN FieldTag :
               Len(TagChunks(FieldTag[f])) = IF MdPresent(f) THEN 1 ELSE 0
          /\ LET c == Chunks(w.out)
             IN  \A i, j \in 1..Len(c) :
                   /\ (c[i].tag = "hIST" /\ c[j].tag \in { "PLTE", "tRNS" }) => j < i
                   /\ (c[i].tag = "hIST" /\ c[j].tag = "IDAT") => i < j)
  /\ [](arg.m.deferred => (pc \notin { "row", "zclose", "flush" } /\ ret # FormatErr))
  /\ [][(arg.m.deferred /\ pc \in { "mode", "sig" } \cup AfterSignature)
          => (e'.cb = e.cb /\ e'.bw = e.bw /\ e'.zw = e.zw)]_vars

\* a deferred source with all four captured chunks and a bundle with gamma and histogram
C8_Witness ==
  /\ Succeeded
  /\ arg.m.deferred
  /\ arg.m.plte # None /\ arg.m.trns # None /\ arg.m.idat # None
  /\ MdPresent("Gamma") /\ MdPresent("Histogram")
  /\ TagChunks("IDAT") = << [tag |-> "IDAT", body |-> << 120, 1, 2 >>] >>
  /\ e.cb = "cbInvalid"

\* a deferred source whose bounds are empty was written out all the same
C8_NoSizeCheck ==
  /\ Succeeded
  /\ arg.m.deferred
  /\ arg.m.Dx = Wide(0)
  /\ Tags(w.out) = << "IHDR", "IDAT", "IEND" >>

\* the call stands between its BufferPool.Get and its deferred BufferPool.Put
Holding == pc \in { "mode", "sig" } \cup AfterSignature

(***************************************************************************)
(* C9.  With a buffer pool configured, a call that has taken a session     *)
(* with Get and not yet returned holds exactly one session more than was   *)
(* put back, and the pool holds none; a call that is over, or has not yet  *)
(* reached its Get, leaves as many Puts as Gets, on every exit: success,   *)
(* sink failure, palette FormatError, hook error, panic.  The one Put of a *)
(* call is its last step and leaves the sink as it is.  Without a pool     *)
(* there is no Get and no Put.                                             *)
(***************************************************************************)
C9_SessionRelease ==
  /\ [](enc.BufferPool =>
          IF Holding THEN gets = puts + 1 /\ pool = << >>
          ELSE gets = puts /\ Len(pool) = (IF puts > 0 THEN 1 ELSE 0))
  /\ [](~enc.BufferPool => (gets = 0 /\ puts = 0 /\ pool = << >>))
  /\ [][/\ gets' # gets => (gets' = gets + 1 /\ pc = "acquire" /\ w.n = 0)
        /\ puts' # puts => (puts' = puts + 1 /\ pc = "ret" /\ pc' = "done" /\ w' = w)
        /\ pc = "done" => pc' = "idle"]_vars

\* the second call on an Encoder with a pool ended on an XMP hook error, its session put back
C9_Witness ==
  /\ enc.BufferPool
  /\ pc = "done"
  /\ gets = 2 /\ puts = 2
  /\ ret = XmpHookErr
  /\ Len(pool) = 1
  /\ w.n >= 4

\* the other exits of a call that took a session: success, sink failure, palette, panic
C9_PutAfterSuccess == enc.BufferPool /\ pc = "done" /\ puts = 2 /\ ret = NoErr /\ w.n >= 10
C9_PutAfterSinkFailure == enc.BufferPool /\ pc = "done" /\ puts = 1 /\ ret = SinkErr /\ w.n = 5
C9_PutAfterPaletteError ==
  enc.BufferPool /\ pc = "done" /\ puts = 1 /\ ret = FormatErr /\ w.n >= 4 /\ ExposesPalette
C9_PutAfterPanic == enc.BufferPool /\ pc = "done" /\ puts = 2 /\ ret = "panic"

RECURSIVE Total(_)
\* the bytes the compressor produces over a whole image: its rows and its Close
Total(z) == IF z = << >> THEN 0 ELSE Head(z) + Total(Tail(z))

RECURSIVE Bodies(_)
\* the payloads of a sequence of chunks, end to end
Bodies(cs) == IF cs = << >> THEN << >> ELSE Head(cs).body \o Bodies(Tail(cs))

(***************************************************************************)
(* C10.  In a call on a source that is not deferred, the compressor has    *)
(* been closed, having produced all its bytes, when the IDAT buffer's      *)
(* final flush starts, and that flush is over before IEND is written.  At  *)
(* a successful return the payloads of the IDAT chunks, end to end, are    *)
(* exactly the bytes the compressor produced, those of its Close included, *)
(* in order; the buffer is empty; IEND is the last chunk; and once IEND is *)
(* begun the call writes nothing more.                                     *)
(***************************************************************************)
C10_CompressedBytesInIDAT ==
  /\ [](pc = "flush" => (~arg.m.deferred /\ e.zw.n = Total(arg.m.zemit)))
  /\ []((Succeeded /\ ~arg.m.deferred) =>
          /\ WellFramed(w.out)
          /\ e.zw.n = Total(arg.m.zemit)
          /\ Bodies(TagChunks("IDAT")) = [i \in 1..e.zw.n |-> i]
          /\ e.bw.buf = << >>
          /\ LET c == Chunks(w.out)
             IN  /\ c[Len(c)].tag = "IEND"
                 /\ \A i \in 1..(Len(c) - 1) : c[i].tag # "IEND")
  /\ [][/\ pc = "zclose" => pc' = "flush"
        /\ pc = "flush" => pc' = "iend"
        /\ (\E i \in 1..Len(w.out) : w.out[i].tag = "IEND") => (w' = w \/ pc' = "idle")]_vars

\* two rows: the first row's bytes went out in an IDAT of their own, the second row's and the
\* bytes of the Close in the IDAT of the final flush
C10_Witness ==
  /\ Succeeded
  /\ ~arg.m.deferred
  /\ arg.m.zemit = << 4, 1, 2 >>
  /\ TagChunks("IDAT") = << [tag |-> "IDAT", body |-> << 1, 2, 3, 4 >>],
                            [tag |-> "IDAT", body |-> << 5, 6, 7 >>] >>
  /\ Tags(w.out) = << "IHDR", "IDAT", "IDAT", "IEND" >>

(***************************************************************************)
(* The five filter transforms as the format defines them, on the data of a *)
(* current row c and a previous row p: the byte to the left and the byte   *)
(* above it to the left are 0 for the first bpp bytes.                     *)
(***************************************************************************)
LeftOf(r, i, bpp) == IF i > bpp THEN r[i - bpp] ELSE 0

\* whichever of a, b, c is closest to a + b - c, ties resolved a, b, c
Predictor(a, b, c) ==
  LET q == a + b - c
  IN  IF Abs(q - a) <= Abs(q - b) /\ Abs(q - a) <= Abs(q - c) THEN a
      ELSE IF Abs(q - b) <= Abs(q - c) THEN b
      ELSE c

Transform(t, c, p, bpp) ==
  [i \in 1..Len(c) |->
     LET predicted == CASE t = ftNone -> 0
                        [] t = ftSub -> LeftOf(c, i, bpp)
                        [] t = ftUp -> p[i]
                        [] t = ftAverage -> (LeftOf(c, i, bpp) + p[i]) \div 2
                        [] t = ftPaeth -> Predictor(LeftOf(c, i, bpp), p[i], LeftOf(p, i, bpp))
     IN  (c[i] - predicted) % 256]

RECURSIVE Magnitude(_)
\* the sum of the absolute values of the bytes of r taken as signed
Magnitude(r) ==
  IF r = << >> THEN 0
  ELSE Abs(IF Head(r) >= 128 THEN Head(r) - 256 ELSE Head(r)) + Magnitude(Tail(r))

\* the order in which the filters are tried
Priority == << ftUp, ftPaeth, ftNone, ftSub, ftAverage >>

\* the data of a row buffer
DataOf(buf) == SubSeq(buf, 2, Len(buf))

\* the filter that the exhaustive search picks: the first in Priority among those whose
\* complete sum is the least
Exhaustive(c, p, bpp) ==
  LET S == [k \in 1..5 |-> Magnitude(Transform(Priority[k], c, p, bpp))]
      k0 == CHOOSE k \in 1..5 : /\ \A j \in 1..5 : S[k] <= S[j]
                                /\ \A j \in 1..(k - 1) : S[j] > S[k]
  IN  Priority[k0]

(***************************************************************************)
(* C11.  For every current row and previous row of n bytes and every bpp   *)
(* from 1 to n, filter returns the filter whose complete sum of absolute   *)
(* signed bytes over the whole filtered row is the least of the five, and  *)
(* among those of least sum the first in the order Up, Paeth, None, Sub,   *)
(* Average: the breaks on a partial sum change nothing of the choice.      *)
(***************************************************************************)
C11_FilterIsPriorityMinimum ==
  wi.pc = "return" =>
    wi.f = Exhaustive(DataOf(wi.cr[ftNone]), DataOf(wi.pr), wi.bpp)

\* the filter returned ties with another on the complete sum, and the loop of a third
\* candidate broke on a partial sum, leaving that candidate's buffer incomplete
C11_Witness ==
  /\ wi.pc = "return"
  /\ wi.bpp < Len(wi.pr) - 1
  /\ LET c == DataOf(wi.cr[ftNone])
         p == DataOf(wi.pr)
     IN  \E t, u \in 0..4 :
           /\ t # wi.f /\ u # wi.f /\ u # t
           /\ Magnitude(Transform(t, c, p, wi.bpp)) = Magnitude(Transform(wi.f, c, p, wi.bpp))
           /\ DataOf(wi.cr[u]) # Transform(u, c, p, wi.bpp)

\* the row before the current one: all zeros for the first row of an image
RowAbove == IF wi.y = 0 THEN Zeros(Len(wi.raw)) ELSE wi.prev

(***************************************************************************)
(* C12.  The buffer cr[f] that writeImage hands to the compressor holds    *)
(* the filter type f in its first byte and then, at every position, the    *)
(* complete transform by filter f of the row's unfiltered bytes against    *)
(* the unfiltered bytes of the row above (zeros for the first row), f      *)
(* being the choice of the exhaustive search for an image that is          *)
(* filtered and None for one that is not: no byte of it is left from a     *)
(* loop that broke, from an earlier row or from an earlier image written   *)
(* on the session.                                                         *)
(***************************************************************************)
C12_RowHandedIsCompleteTransform ==
  wi.pc = "feed" =>
    LET bpp == bitsPerPixel(wi.m.cb) \div 8
        row == View(CrName(wi.f))
    IN  /\ Len(row) = rowSize(wi.m)
        /\ row[1] = wi.f
        /\ DataOf(row) = Transform(wi.f, wi.raw, RowAbove, bpp)
        /\ wi.f = IF filtered(wi.m) THEN Exhaustive(wi.raw, RowAbove, bpp) ELSE ftNone

\* the second row of the third image on a session: a filter other than None was chosen
\* while another candidate's buffer, its loop having broken, holds other bytes than its
\* transform of this row
C12_Witness ==
  /\ wi.pc = "feed"
  /\ images = 3
  /\ wi.y = 1
  /\ wi.f # ftNone
  /\ wi.m.Dx = 2
  /\ \E k \in 1..4 :
       /\ k # wi.f
       /\ DataOf(View(CrName(k)))
            # Transform(k, wi.raw, RowAbove, bitsPerPixel(wi.m.cb) \div 8)

(***************************************************************************)
(* C13.  Whenever a row is about to be filtered, on a session used for any *)
(* sequence of images, the previous-row buffer pr has the length of the    *)
(* current row's buffer; for the first row of an image it holds zeros      *)
(* only, and for every later row its data are the unfiltered bytes of the  *)
(* row before, while cr[0] holds the unfiltered bytes of the current row.  *)
(***************************************************************************)
C13_PreviousRowBuffer ==
  wi.pc = "filter" =>
    /\ Len(View(PrName)) = rowSize(wi.m)
    /\ Len(View(Cr0Name)) = rowSize(wi.m)
    /\ DataOf(View(Cr0Name)) = wi.raw
    /\ View(PrName)[1] = 0
    /\ IF wi.y = 0 THEN View(PrName) = Zeros(rowSize(wi.m))
       ELSE DataOf(View(PrName)) = wi.prev /\ wi.prev = RawRow(wi.m, wi.y - 1)

\* the first row of the third image on a session: the image is as wide as the first and
\* wider than the second, so that its buffers are the first image's arrays, cut again to
\* their whole length
C13_Witness ==
  /\ wi.pc = "filter"
  /\ images = 3
  /\ wi.y = 0
  /\ wi.m.Dx = 2
  /\ Len(scratch["pr"].mem) = scratch["pr"].len
  /\ View(PrName) = Zeros(rowSize(wi.m))
  /\ \E k \in 1..4 : DataOf(View(CrName(k))) # Zeros(rowSize(wi.m) - 1)

\* a later row of an image on a session used before
C13_LaterRow ==
  /\ wi.pc = "filter"
  /\ images = 2
  /\ wi.y = 1
  /\ wi.swapped
  /\ DataOf(View(PrName)) = RawRow(wi.m, 0)

(***************************************************************************)
(* zTXt entries and e.tmp.                                                 *)
(***************************************************************************)
\* the payload of the zTXt chunk of entry t: key, NUL, method 0, the compressed value
ZtxtPayload(t) == t.Key \o << 0, 0 >> \o pngCompress(enc.CompressionLevel, t.Value)

\* the turn of the text loop that handles a zTXt entry with no error recorded before it
ZtxtTurn ==
  /\ pc = "text"
  /\ ti < Len(MdText)
  /\ MdText[ti + 1].EntryType = "EtZtext"
  /\ e.err = NoErr
  /\ ti' = ti + 1

\* the turn added exactly the entry's chunk to the sink
ZtxtWhole ==
  LET b == ZtxtPayload(MdText[ti + 1])
  IN  w'.out = w.out \o << Item("hdr", "zTXt", PutUint32(Len(b))), Item("body", "zTXt", b),
                           Item("crc", "zTXt", b) >>

(***************************************************************************)
(* C14.  Every turn of the text loop that handles a zTXt entry, whatever   *)
(* the lengths of its key and of its compressed value, either adds to the  *)
(* sink one zTXt chunk whose payload is key, NUL, method byte and the      *)
(* whole compressed value, or records an error in e.err; it never panics   *)
(* because the entry does not fit e.tmp.                                   *)
(***************************************************************************)
C14_ZtxtWholeOrError ==
  [][ZtxtTurn => (~panic' /\ (ZtxtWhole \/ e'.err # NoErr))]_vars

\* what does hold: the chunk is whole, or an error is recorded, or the call panics; a
\* payload cut to len(e.tmp) is never written
C14_ZtxtNeverTruncated ==
  [][ZtxtTurn => (ZtxtWhole \/ e'.err # NoErr \/ (panic' /\ w' = w /\ e' = e))]_vars

\* a call ended in a panic on a zTXt payload one byte longer than e.tmp, nothing written
\* after IHDR
C14_OversizePanics ==
  /\ pc = "done"
  /\ ret = "panic"
  /\ ~arg.m.AtNil
  /\ Len(MdText) > 0
  /\ Len(ZtxtPayload(MdText[1])) = TmpSize + 1
  /\ Tags(w.out) = << "IHDR" >>

\* a call ended in a panic on a key of len(e.tmp) - 1 bytes
C14_LongKeyPanics ==
  /\ pc = "done"
  /\ ret = "panic"
  /\ Len(MdText) > 0
  /\ Len(MdText[1].Key) = TmpSize - 1

\* a payload of exactly len(e.tmp) bytes is written whole
C14_LargestFits ==
  /\ Succeeded
  /\ Len(TagChunks("zTXt")) = 1
  /\ Len(TagChunks("zTXt")[1].body) = TmpSize
  /\ TagChunks("zTXt")[1].body = ZtxtPayload(MdText[1])

====
